---- MODULE Spec2Model ----
(***************************************************************************)
(* Merge-on-write delete-bitmap engine of a tablet                         *)
(* (be/src/olap/base_tablet.cpp): primary-key lookup, per-segment          *)
(* delete-bitmap calculation, and the flush / commit / publish checkpoints *)
(* of a write transaction; the partial-update reconstruction, the          *)
(* calculation token, the compaction scheduler and its producer thread,    *)
(* the S3 file writer's join on its asynchronous uploads and its close,    *)
(* the tablet state, and the batched scan of the primary-key index.        *)
(***************************************************************************)
EXTENDS Integers, Sequences, FiniteSets, TLC

\* ------------------------------------------------------------------ bounds
NumTxns == 2
NumKeys == 1
MaxSegs == 2
MaxSeq == 1
MaxMergedSegs == 3
MaxQueued == 10
MaxMarks == 2

\* --------------------------------------------------------------- constants
\* DeleteBitmap::TEMP_VERSION_COMMON: the version of a mark whose final
\* version is not known yet.
TEMP_VERSION_COMMON == 0
\* DeleteBitmap::INVALID_SEGMENT_ID / ROWSET_SENTINEL_MARK: the reserved key
\* and row-id recording "the bitmap against this rowset has been computed".
\* (The program uses values at the top of uint32; any value that is no
\* segment ordinal and no row ordinal of the model stands for them.)
INVALID_SEGMENT_ID == 1000
ROWSET_SENTINEL_MARK == 1001

Txns == 1 .. NumTxns
Keys == 1 .. NumKeys
Seqs == 0 .. MaxSeq

\* The version a transaction is published at: versions are handed out in
\* transaction order; version 1 is the tablet's empty [0-1] rowset.
VersionOf(t) == t + 1

Max(S) == CHOOSE x \in S : \A y \in S : y <= x
Min(S) == CHOOSE x \in S : \A y \in S : x <= y

VARIABLES
    tablet_state,          \* TabletState of the tablet meta
    rs_version_map,        \* ids of the rowsets visible in the tablet
    rowsets,               \* rowset id -> [version, segs, by_compaction]
    tablet_bitmap,         \* _tablet_meta->delete_bitmap(): marks <<rowset, segment, version, row>>
    converted,             \* rowsets whose bitmap the alter process has computed
    txn,                   \* transaction -> TabletTxnInfo and the position of its writer
    rowset_update_lock,    \* holder of _rowset_update_lock (0: free)
    enable_mow_check,      \* config::enable_merge_on_write_correctness_check
    has_sequence_col,      \* schema->has_sequence_col()
    dcheck,                \* what the build made of a failed DCHECK: "none" (none has
                           \* failed), "aborted" (debug build: the process is gone),
                           \* "compiled_out" (release build: the statement is empty)
    io_errors,             \* the environment fails I/O steps (errors, debug points)
    scheduler,             \* the compaction scheduler: budget, thread pool, registry
    compaction,            \* a compaction merge: inputs, conversion table, outputs
    calc,                  \* one calc_segment_delete_bitmap call: inputs, lookups, result
    rebuild,               \* one partial-update reconstruction: schema, rows read, block
    calc_token,            \* a CalcDeleteBitmapToken: the segment tasks and the waiter
    s3_writer,             \* an S3FileWriter: its countdown event and its async tasks
    state_calls,           \* the set_tablet_state calls made: target, status, state left
    pk_scan                \* one batched scan of a primary-key index: its loop variables

vars == <<tablet_state, rs_version_map, rowsets, tablet_bitmap, converted, txn,
          rowset_update_lock, enable_mow_check, has_sequence_col, dcheck, io_errors,
          scheduler, compaction, calc, rebuild, calc_token, s3_writer, state_calls,
          pk_scan>>

\* The state of the functions and objects that are specified on their own.
unit_vars == <<calc, rebuild, calc_token, s3_writer, state_calls, pk_scan>>

NoCalc == [pc |-> "none"]
NoRebuild == [pc |-> "none"]
NoCalls == << >>
NoScan == [pc |-> "none"]
NoToken == [pc |-> "none"]
NoWriterObject == [pc |-> "none"]

NoUnits ==
    /\ calc = NoCalc
    /\ rebuild = NoRebuild
    /\ calc_token = NoToken
    /\ s3_writer = NoWriterObject
    /\ state_calls = NoCalls
    /\ pk_scan = NoScan

\* ----------------------------------------------------------- DeleteBitmap
\* A DeleteBitmap is the set of its marks <<rowset, segment, version, row>>.
\* An add that clears a row already set (a faulty variant of add).
toggle(bm, rs, seg, ver, row) ==
    IF <<rs, seg, ver, row>> \in bm THEN bm \ {<<rs, seg, ver, row>>}
    ELSE bm \cup {<<rs, seg, ver, row>>}

\* An add under the version after the temporary one (a faulty variant of add).
add_under_next_version(bm, rs, seg, ver, row) == bm \cup {<<rs, seg, ver + 1, row>>}

\* An add of the row after the one named (a faulty variant of add).
add_next_row(bm, rs, seg, ver, row) == bm \cup {<<rs, seg, ver, row + 1>>}

add(bm, rs, seg, ver, row) == bm \cup {<<rs, seg, ver, row>>}

\* remove({rs, 0, 0}, {rs, UINT32_MAX, INT64_MAX}): every entry of the rowset.
remove(bm, rs) == {m \in bm : m[1] # rs}

\* A bitmap that is taken to hold no row (a faulty variant of contains).
contains_nothing(bm, rs, seg, ver, row) == FALSE

contains(bm, rs, seg, ver, row) == <<rs, seg, ver, row>> \in bm

\* The row is marked in some version <= ver of (rowset, segment).
contains_agg_without_cache(bm, rs, seg, ver, row) ==
    \E m \in bm : m[1] = rs /\ m[2] = seg /\ m[4] = row /\ m[3] <= ver

\* delete_bitmap.contains(key): the map holds an entry under the key.
contains_key(bm, rs, seg, ver) ==
    \E m \in bm : m[1] = rs /\ m[2] = seg /\ m[3] = ver

remove_sentinel_marks(bm) == {m \in bm : m[2] # INVALID_SEGMENT_ID}

\* ------------------------------------------------------- rowsets, segments
\* A row of a segment: its primary key and its sequence-column value.
\* A segment is the sequence of its rows in primary-key-index order, the
\* row ordinal (row id) being the position minus one.
num_segments(rs) == Len(rowsets[rs].segs)

num_rows(rs) ==
    LET S == rowsets[rs].segs
        RECURSIVE Sum(_)
        Sum(i) == IF i = 0 THEN 0 ELSE Len(S[i]) + Sum(i - 1)
    IN  Sum(Len(S))

\* rowsets sorted by end_version descending (std::sort at the end).
RECURSIVE sort_by_end_version(_)
sort_by_end_version(ids) ==
    IF ids = {} THEN << >>
    ELSE LET r == CHOOSE a \in ids :
                    \A b \in ids : rowsets[a].version >= rowsets[b].version
         IN  <<r>> \o sort_by_end_version(ids \ {r})

get_rowset_by_ids(specified_rowset_ids) ==
    sort_by_end_version(rs_version_map \cap specified_rowset_ids)

\* _tablet_meta->max_version(): the [0-1] rowset when nothing is published.
max_version_unlocked ==
    Max({1} \cup {rowsets[r].version : r \in rs_version_map})

\* capture_consistent_versions(0 .. max_version) finds a path only through
\* continuous versions; the [0-1] rowset is skipped.
get_all_rs_id_unlocked(max_version) ==
    IF \A v \in 2 .. max_version : \E r \in rs_version_map : rowsets[r].version = v
    THEN [ok |-> TRUE,
          ids |-> {r \in rs_version_map : rowsets[r].version <= max_version}]
    ELSE [ok |-> FALSE, ids |-> {}]

\* ---------------------------------------------------------- lookup_row_key
NotFound == [st |-> "KEY_NOT_FOUND", loc |-> <<0, 0, 0>>]

\* key_is_not_in_segment: the key lies outside the segment's key bounds.
key_is_not_in_segment(key, segrows) ==
    \/ segrows = << >>
    \/ key < segrows[1].key
    \/ key > segrows[Len(segrows)].key

\* Segment::lookup_row_key: the row of the segment holding the key;
\* KEY_ALREADY_EXISTS when that row carries a larger sequence value.
segment_lookup_row_key(segrows, key, seq, with_seq_col) ==
    LET hits == {i \in 1 .. Len(segrows) : segrows[i].key = key}
    IN  IF hits = {} THEN [st |-> "KEY_NOT_FOUND", row |-> 0]
        ELSE LET i == CHOOSE h \in hits : TRUE
             IN  IF has_sequence_col /\ with_seq_col /\ segrows[i].seq > seq
                 THEN [st |-> "KEY_ALREADY_EXISTS", row |-> i - 1]
                 ELSE [st |-> "OK", row |-> i - 1]

\* The segments in ascending id order (a faulty variant of picked_segments).
RECURSIVE picked_ascending(_, _, _)
picked_ascending(rs, j, key) ==
    IF j < 0 THEN << >>
    ELSE IF key_is_not_in_segment(key, rowsets[rs].segs[j + 1])
         THEN picked_ascending(rs, j - 1, key)
         ELSE picked_ascending(rs, j - 1, key) \o <<j>>

\* for (int j = num_segments - 1; j >= 0; j--): the segments the key bounds
\* do not rule out, in descending id order.
RECURSIVE picked_segments(_, _, _)
picked_segments(rs, j, key) ==
    IF j < 0 THEN << >>
    ELSE IF key_is_not_in_segment(key, rowsets[rs].segs[j + 1])
         THEN picked_segments(rs, j - 1, key)
         ELSE <<j>> \o picked_segments(rs, j - 1, key)

\* A loop that ends the whole lookup at the first deleted match (a faulty
\* variant of lookup_in_rowset).
RECURSIVE lookup_ending_at_deleted(_, _, _, _, _, _, _)
lookup_ending_at_deleted(rs, picked, key, seq, with_seq_col, version, bm) ==
    IF picked = << >> THEN [st |-> "NEXT_ROWSET", loc |-> <<0, 0, 0>>]
    ELSE LET id == Head(picked)
             Found(s) ==
                IF s.st = "KEY_NOT_FOUND"
                THEN lookup_ending_at_deleted(rs, Tail(picked), key, seq, with_seq_col,
                                              version, bm)
                ELSE IF s.st = "OK" /\ contains_agg_without_cache(bm, rs, id, version, s.row)
                     THEN [st |-> "KEY_NOT_FOUND", loc |-> <<0, 0, 0>>]
                     ELSE [st |-> s.st, loc |-> <<rs, id, s.row>>]
         IN  Found(segment_lookup_row_key(rowsets[rs].segs[id + 1], key, seq, with_seq_col))

\* A loop that hands back the first match whatever the bitmap holds (a
\* faulty variant of the loop below).
RECURSIVE lookup_without_bitmap(_, _, _, _, _, _, _)
lookup_without_bitmap(rs, picked, key, seq, with_seq_col, version, bm) ==
    IF picked = << >> THEN [st |-> "NEXT_ROWSET", loc |-> <<0, 0, 0>>]
    ELSE LET id == Head(picked)
             Found(s) ==
                IF s.st = "KEY_NOT_FOUND"
                THEN lookup_without_bitmap(rs, Tail(picked), key, seq, with_seq_col,
                                           version, bm)
                ELSE [st |-> s.st, loc |-> <<rs, id, s.row>>]
         IN  Found(segment_lookup_row_key(rowsets[rs].segs[id + 1], key, seq, with_seq_col))

\* The loop over the picked segments of one rowset. "NEXT_ROWSET" is the
\* loop ending without a return (exhausted, or the break of line 532).
RECURSIVE lookup_in_rowset(_, _, _, _, _, _, _)
lookup_in_rowset(rs, picked, key, seq, with_seq_col, version, bm) ==
    IF picked = << >> THEN [st |-> "NEXT_ROWSET", loc |-> <<0, 0, 0>>]
    ELSE LET id == Head(picked)
             Found(s) ==
                IF s.st = "KEY_NOT_FOUND"
                   \/ (s.st = "OK" /\ has_sequence_col
                       /\ contains_agg_without_cache(bm, rs, id, version, s.row))
                THEN lookup_in_rowset(rs, Tail(picked), key, seq, with_seq_col, version, bm)
                ELSE IF s.st = "OK" /\ contains_agg_without_cache(bm, rs, id, version, s.row)
                     THEN [st |-> "NEXT_ROWSET", loc |-> <<0, 0, 0>>]
                     ELSE [st |-> s.st, loc |-> <<rs, id, s.row>>]
         IN  Found(segment_lookup_row_key(rowsets[rs].segs[id + 1], key, seq, with_seq_col))

\* A lookup that finds no key (a faulty variant: no conflict is ever seen).
lookup_finds_nothing(key, seq, with_seq_col, specified_rowsets, version, bm) == NotFound

RECURSIVE lookup_row_key(_, _, _, _, _, _)
lookup_row_key(key, seq, with_seq_col, specified_rowsets, version, bm) ==
    IF specified_rowsets = << >> THEN NotFound
    ELSE LET rs == Head(specified_rowsets)
             Found(r) ==
                IF r.st = "NEXT_ROWSET"
                THEN lookup_row_key(key, seq, with_seq_col, Tail(specified_rowsets),
                                    version, bm)
                ELSE r
         IN  Found(lookup_in_rowset(rs, picked_segments(rs, num_segments(rs) - 1, key),
                                    key, seq, with_seq_col, version, bm))

\* ----------------------------------------------- calc_segment_delete_bitmap
\* The rowset writer handed to the calculation: none (nullptr), or the
\* writer of a load with its partial-update mode and whether the load
\* specifies the sequence column.
NoWriter == [present |-> FALSE, mode |-> "NONE", seq_in |-> FALSE]
Writer(mode, seq_in) == [present |-> TRUE, mode |-> mode, seq_in |-> seq_in]

\* Every writer taken for a partial update's (a faulty variant).
writer_always_partial(w) == TRUE

is_partial_update(w) == w.present /\ w.mode # "NONE"

\* A writer whose columns never hold the sequence column (a faulty variant).
no_input_seq_column(w) == FALSE

\* have_input_seq_column: fixed partial update whose update_cids hold the
\* sequence column.
have_input_seq_column(w) ==
    is_partial_update(w) /\ w.mode = "FIXED" /\ has_sequence_col /\ w.seq_in

RowAt(loc) == rowsets[loc[1]].segs[loc[2] + 1][loc[3] + 1]

\* Faulty variants of the function below: no sentinel mark at all, and a
\* sentinel mark only for the rowsets the bitmap holds a row of.
no_sentinel_mark(bm, rowsetids) == bm

sentinel_for_marked_rowsets(bm, rowsetids) ==
    bm \cup {<<r, INVALID_SEGMENT_ID, TEMP_VERSION_COMMON, ROWSET_SENTINEL_MARK>> :
                r \in {x \in rowsetids : \E m \in bm : m[1] = x}}

add_sentinel_mark_to_delete_bitmap(bm, rowsetids) ==
    bm \cup {<<r, INVALID_SEGMENT_ID, TEMP_VERSION_COMMON, ROWSET_SENTINEL_MARK>> :
                r \in rowsetids}

SeqToSet(q) == {q[i] : i \in 1 .. Len(q)}

\* The body of the scan loop for the rows row_id .. limit - 1 of the segment.
\* acc: the bitmap, the two read plans and rids_be_overwritten so far.
RECURSIVE calc_rows(_, _, _, _, _, _, _, _, _)
calc_rows(rs, seg, row_id, limit, specified_rowsets, end_version, w, tbm, acc) ==
    IF row_id >= limit THEN acc
    ELSE
    LET row == rowsets[rs].segs[seg + 1][row_id + 1]
        Step(r) ==
          IF contains(acc.bm, rs, seg, TEMP_VERSION_COMMON, row_id) THEN acc
          ELSE IF r.st = "KEY_NOT_FOUND" THEN acc
          ELSE IF r.st = "KEY_ALREADY_EXISTS"
                  /\ (~is_partial_update(w)
                      \/ (w.mode = "FIXED" /\ have_input_seq_column(w)))
          THEN [acc EXCEPT !.bm = add(@, rs, seg, TEMP_VERSION_COMMON, row_id)]
          ELSE IF is_partial_update(w)
          THEN [bm  |-> add(add(acc.bm, r.loc[1], r.loc[2], TEMP_VERSION_COMMON, r.loc[3]),
                            rs, seg, TEMP_VERSION_COMMON, row_id),
                ori |-> Append(acc.ori, r.loc),
                upd |-> Append(acc.upd, <<rs, seg, row_id>>),
                overwritten |->
                    IF r.st = "KEY_ALREADY_EXISTS" /\ w.mode = "FLEXIBLE"
                    THEN acc.overwritten \cup {Len(acc.ori)}
                    ELSE acc.overwritten]
          ELSE [acc EXCEPT !.bm = add(@, r.loc[1], r.loc[2], TEMP_VERSION_COMMON, r.loc[3])]
    IN  calc_rows(rs, seg, row_id + 1, limit, specified_rowsets, end_version, w, tbm,
                  Step(lookup_row_key(row.key, row.seq, TRUE, specified_rowsets,
                                      end_version, tbm)))

\* A reconstruction that rebuilds the first queued row only (a faulty
\* variant).
rebuilds_first_row_only(w, plan) ==
    [pos \in 1 .. Min({1, Len(plan.ori)}) |->
        [key |-> RowAt(plan.upd[pos]).key, seq |-> RowAt(plan.ori[pos]).seq]]

\* generate_new_block_for_partial_update /
\* generate_new_block_for_flexible_partial_update, for the columns of the
\* model: the key comes from the new row, the sequence value from the new
\* row when the load specifies it and the row was not overwritten, and from
\* the old row otherwise.
generate_new_block(w, plan) ==
    [pos \in 1 .. Len(plan.ori) |->
        [key |-> RowAt(plan.upd[pos]).key,
         seq |-> IF w.seq_in /\ (pos - 1) \notin plan.overwritten
                 THEN RowAt(plan.upd[pos]).seq
                 ELSE RowAt(plan.ori[pos]).seq]]

\* sort_block: the rows ascending by key.
RECURSIVE sort_block(_)
sort_block(block) ==
    IF block = << >> THEN << >>
    ELSE LET i == CHOOSE a \in 1 .. Len(block) :
                    \A b \in 1 .. Len(block) : block[a].key <= block[b].key
         IN  <<block[i]>> \o
             sort_block([k \in 1 .. Len(block) - 1 |->
                            IF k < i THEN block[k] ELSE block[k + 1]])

\* calc_segment_delete_bitmap for one segment. fail_row < 0: no step fails.
\* 0 <= fail_row < rows: the lookup of that row (or the injected error
\* before it, or for row 0 the load of the index) fails. fail_row = rows:
\* the reconstruction of the partial-update block fails.
\* Result: the status, the bitmap and the block flushed to the writer.
calc_segment_delete_bitmap(rs, seg, specified_rowsets, bm, end_version, w, tbm, fail_row) ==
    LET total == Len(rowsets[rs].segs[seg + 1])
        limit == IF fail_row >= 0 /\ fail_row < total THEN fail_row ELSE total
        Marked(b) == IF enable_mow_check
                     THEN add_sentinel_mark_to_delete_bitmap(b, SeqToSet(specified_rowsets))
                     ELSE b
        Scanned(acc) ==
            IF limit < total \/ (total = 0 /\ fail_row = 0)
            THEN [st |-> "ERROR", bm |-> acc.bm, block |-> << >>]
            ELSE IF Len(acc.ori) > 0 /\ fail_row = total
            THEN [st |-> "ERROR", bm |-> Marked(acc.bm), block |-> << >>]
            ELSE [st |-> "OK", bm |-> Marked(acc.bm),
                  block |-> sort_block(generate_new_block(w, acc))]
    IN  Scanned(calc_rows(rs, seg, 0, limit, specified_rowsets, end_version, w, tbm,
                          [bm |-> bm, ori |-> << >>, upd |-> << >>, overwritten |-> {}]))

\* calc_delete_bitmap over the segments seg .. num_segments - 1 of the rowset.
\* With a token every segment is submitted and runs, and wait() returns the
\* first error; without one the first failing segment ends the loop.
\* fail = <<segment, row>> names the failing step (<<-1, -1>>: none).
RECURSIVE calc_segments(_, _, _, _, _, _, _, _, _, _)
calc_segments(rs, seg, specified_rowsets, end_version, token, w, tbm, fail, acc, nsegs) ==
    IF seg >= nsegs THEN acc
    ELSE LET Joined(r) ==
                [st |-> IF acc.st = "OK" THEN r.st ELSE acc.st,
                 bm |-> r.bm,
                 blocks |-> IF r.block = << >> THEN acc.blocks
                            ELSE Append(acc.blocks, r.block)]
             Continue(nxt) ==
                IF nxt.st # "OK" /\ ~token THEN nxt
                ELSE calc_segments(rs, seg + 1, specified_rowsets, end_version, token, w,
                                   tbm, fail, nxt, nsegs)
         IN  Continue(Joined(
                calc_segment_delete_bitmap(rs, seg, specified_rowsets, acc.bm, end_version,
                                           w, tbm, IF fail[1] = seg THEN fail[2] ELSE -1)))

calc_delete_bitmap(rs, nsegs, specified_rowsets, bm, end_version, token, w, tbm, fail) ==
    IF specified_rowsets = << >> \/ nsegs = 0
    THEN [st |-> "OK", bm |-> bm, blocks |-> << >>]
    ELSE calc_segments(rs, 0, specified_rowsets, end_version, token, w, tbm, fail,
                       [st |-> "OK", bm |-> bm, blocks |-> << >>], nsegs)

\* --------------------------------------- calc_delete_bitmap_between_segments
\* MergeIndexDeleteBitmapCalculator::calculate_all: of the rows of the
\* rowset's segments holding one key, all but the one with the largest
\* sequence value (the highest segment on a tie) are marked.
calculate_all(rs, bm) ==
    LET S == rowsets[rs].segs
        Rows == {<<j, i>> \in (1 .. Len(S)) \X (1 .. NumKeys) : i <= Len(S[j])}
        Beaten(a) == \E b \in Rows :
                        /\ S[b[1]][b[2]].key = S[a[1]][a[2]].key
                        /\ \/ S[b[1]][b[2]].seq > S[a[1]][a[2]].seq
                           \/ /\ S[b[1]][b[2]].seq = S[a[1]][a[2]].seq
                              /\ b[1] > a[1]
    IN  bm \cup {<<rs, a[1] - 1, TEMP_VERSION_COMMON, a[2] - 1>> : a \in {x \in Rows : Beaten(x)}}

calc_delete_bitmap_between_segments(rs, bm) ==
    IF num_segments(rs) < 2 THEN bm
    ELSE add(calculate_all(rs, bm), rs, INVALID_SEGMENT_ID, TEMP_VERSION_COMMON,
             ROWSET_SENTINEL_MARK)

\* ------------------------------------------------------ _rowset_ids_difference
\* A difference that forgets the rowsets that are gone (a faulty variant).
difference_without_to_del(cur, pre) ==
    [to_add |-> {id \in cur : id \notin pre}, to_del |-> {}]

rowset_ids_difference(cur, pre) ==
    [to_add |-> {id \in cur : id \notin pre},
     to_del |-> {id \in pre : id \notin cur}]

RECURSIVE remove_all(_, _)
\* for (to_del : rowset_ids_to_del) delete_bitmap->remove(...)
remove_all(bm, to_del) ==
    IF to_del = {} THEN bm
    ELSE LET r == CHOOSE x \in to_del : TRUE
         IN  remove_all(remove(bm, r), to_del \ {r})

\* ------------------------------------------- check_delete_bitmap_correctness
missing_ids(bm, rowset_ids) ==
    {r \in rowset_ids : ~contains_key(bm, r, INVALID_SEGMENT_ID, TEMP_VERSION_COMMON)}

\* A check whose failure ends the process in every build (a faulty variant).
check_always_fatal(bm, rowset_ids, debug) ==
    IF missing_ids(bm, rowset_ids) # {} THEN "ABORT" ELSE "OK"

\* "ABORT": the DCHECK(false) of a debug build ends the process before the
\* InternalError is returned; a release build compiles the DCHECK out.
check_delete_bitmap_correctness(bm, rowset_ids, debug) ==
    IF missing_ids(bm, rowset_ids) # {}
    THEN (IF debug THEN "ABORT" ELSE "INTERNAL_ERROR")
    ELSE "OK"

\* The builds a run can still be: both until a DCHECK has failed.
Builds == IF dcheck = "none" THEN BOOLEAN ELSE {FALSE}

\* ------------------------------------------------------ compaction scheduler
\* The configured floor and ceiling of the per-round task budget, and the
\* values the configured queue-depth high-water mark can have: a queue of 3
\* is below it and a queue of 5 is at or above it.
min_compaction_num_per_round == 1
max_compaction_num_per_round == 64
HighWaterMarks == {4, 5}
\* set_min_threads(2) / set_max_threads(2): the threads of one compaction pool,
\* which is what limits the executing tasks of the storage directory.
max_threads == 2

\* Faulty variants of the auto-tuning: a doubling the ceiling does not bound,
\* a halving the floor does not bound, a halving at any non-empty queue.
adjust_without_ceiling(budget, queue_size, high_water) ==
    IF queue_size = 0 THEN budget * 2
    ELSE IF queue_size >= high_water
         THEN Max({budget \div 2, min_compaction_num_per_round})
         ELSE budget

adjust_without_floor(budget, queue_size, high_water) ==
    IF queue_size = 0 THEN Min({budget * 2, max_compaction_num_per_round})
    ELSE IF queue_size >= high_water THEN budget \div 2
         ELSE budget

adjust_at_any_queue(budget, queue_size, high_water) ==
    IF queue_size = 0 THEN Min({budget * 2, max_compaction_num_per_round})
    ELSE Max({budget \div 2, min_compaction_num_per_round})

\* The budget of the next round, from the pool's queue depth.
adjust_compaction_num_per_round(budget, queue_size, high_water) ==
    IF queue_size = 0 THEN Min({budget * 2, max_compaction_num_per_round})
    ELSE IF queue_size >= high_water
         THEN Max({budget \div 2, min_compaction_num_per_round})
         ELSE budget

\* The scheduler after construction: the default budget, an idle pool.
InitScheduler(high_water, disabled) ==
    [compaction_num_per_round |-> min_compaction_num_per_round,
     total_queued_tasks |-> 0,        \* ThreadPool::_total_queued_tasks
     executing |-> 0,                 \* count_executing_cumu_and_base(data_dir)
     high_water |-> high_water,
     disable_auto_compaction |-> disabled,
     st |-> "NONE",                   \* what the last submission returned
     tuned_from |-> 0,                \* the budget the last round started with
     tuned_at |-> -1]                 \* the queue depth it tuned at (-1: no round yet)

\* _submit_compaction_task: the task is handed to the pool's queue.
submit_compaction_task(s) ==
    [s EXCEPT !.total_queued_tasks = @ + 1, !.st = "OK"]

RECURSIVE submit_tasks(_, _)
submit_tasks(s, n) ==
    IF n = 0 THEN s ELSE submit_tasks(submit_compaction_task(s), n - 1)

\* A worker that takes every queued task (a faulty variant of has_idle_thread).
thread_always_idle(s) == TRUE

\* A task leaves the queue only for a thread of the pool that runs nothing.
has_idle_thread(s) == s.executing < max_threads

\* One round of the producer: the eligible tablets (none when automatic
\* compaction is disabled), at most the budget of them submitted, then the
\* budget of the next round from the queue depth.
producer_round(s, eligible) ==
    LET Tuned(q) ==
            [q EXCEPT !.compaction_num_per_round =
                 adjust_compaction_num_per_round(@, q.total_queued_tasks, q.high_water),
                      !.tuned_from = q.compaction_num_per_round,
                      !.tuned_at = q.total_queued_tasks]
    IN  Tuned(submit_tasks(s, IF s.disable_auto_compaction THEN 0
                              ELSE Min({eligible, s.compaction_num_per_round})))

\* No compaction merge has been set up.
NoCompaction == [pc |-> "none"]

\* ------------------------- calc_compaction_output_rowset_delete_bitmap
\* The order of BitmapKey (rowset, segment, version) and of the entries of
\* one rowset (segment, version, row): lexicographic.
key_le(a, b) ==
    \/ a[1] < b[1]
    \/ a[1] = b[1] /\ a[2] < b[2]
    \/ a[1] = b[1] /\ a[2] = b[2] /\ a[3] <= b[3]

\* DeleteBitmap::subset(start, end): the entries whose keys lie from start
\* to end. Whether the entry at the key `end` itself is among them is the
\* library's choice (closed), which the caller does not see.
subset(bm, start, end, closed) ==
    {m \in bm : /\ key_le(start, <<m[1], m[2], m[3]>>)
                /\ key_le(<<m[1], m[2], m[3]>>, end)
                /\ closed \/ <<m[1], m[2], m[3]>> # end}

\* The entries the loops over the segments of the rowset visit.
selected_marks(rs, bm, start_version, end_version, closed) ==
    UNION {subset(bm, <<rs, seg, start_version>>, <<rs, seg, end_version>>, closed) :
              seg \in 0 .. num_segments(rs) - 1}

\* The order the loops visit them in: segment, then version, then row.
RECURSIVE in_scan_order(_)
in_scan_order(S) ==
    IF S = {} THEN << >>
    ELSE LET m == CHOOSE a \in S :
                    \A b \in S : key_le(<<a[2], a[3], a[4]>>, <<b[2], b[3], b[4]>>)
         IN  <<m>> \o in_scan_order(S \ {m})

\* src of an entry; rowid_conversion.get(src, &dst) finds a destination.
src_of(m) == <<m[1], m[2], m[4]>>
has_destination(rowid_conversion, m) == src_of(m) \in DOMAIN rowid_conversion

\* An entry re-expressed under the range's end version (a faulty variant).
converted_at_end_version(rowid_conversion, m, end_version) ==
    LET dst == rowid_conversion[src_of(m)]
    IN  <<dst[1], dst[2], end_version, dst[3]>>

\* output_rowset_delete_bitmap->add({dst.rowset_id, dst.segment_id, cur_version}, dst.row_id)
converted_mark(rowid_conversion, m, end_version) ==
    LET dst == rowid_conversion[src_of(m)]
    IN  <<dst[1], dst[2], m[3], dst[3]>>

\* missed_rows and location_map are optional ([given |-> FALSE]: a null
\* pointer). The result: the output bitmap, the missed rows, the location map.
calc_compaction_output_rowset_delete_bitmap(input_rowsets, rowid_conversion, start_version, end_version, missed_rows, location_map, input_delete_bitmap, output_rowset_delete_bitmap, closed) ==
    LET Selected(rs) == selected_marks(rs, input_delete_bitmap, start_version,
                                       end_version, closed)
        Found(rs)  == {m \in Selected(rs) : has_destination(rowid_conversion, m)}
        Missed(rs) == {m \in Selected(rs) : ~has_destination(rowid_conversion, m)}
        Pairs(rs)  == LET L == in_scan_order(Found(rs))
                      IN  [i \in 1 .. Len(L) |-> <<src_of(L[i]), rowid_conversion[src_of(L[i])]>>]
        All == {input_rowsets[i] : i \in 1 .. Len(input_rowsets)}
    IN  [output_rowset_delete_bitmap |->
             output_rowset_delete_bitmap \cup
             UNION {{converted_mark(rowid_conversion, m, end_version) : m \in Found(rs)} :
                       rs \in All},
         missed_rows |->
             IF missed_rows.given
             THEN [missed_rows EXCEPT !.rows = @ \cup UNION {{src_of(m) : m \in Missed(rs)} :
                                                                rs \in All}]
             ELSE missed_rows,
         location_map |->
             IF location_map.given
             THEN [location_map EXCEPT !.map =
                      [rs \in DOMAIN @ \cup {r \in All : Found(r) # {}} |->
                          (IF rs \in DOMAIN @ THEN @[rs] ELSE << >>) \o Pairs(rs)]]
             ELSE location_map]

\* ------------------------------------------------- check_rowid_conversion
\* Segment::read_key_by_rowid: the encoded primary key of the row.
read_key_by_rowid(segs, loc) == segs[loc[2] + 1][loc[3] + 1].key

\* A check that takes every pair for equal (a faulty variant).
keys_always_equal(src_segs, src, dst_segs, dst) == TRUE

\* src_key.compare(dst_key) == 0
keys_equal(src_segs, src, dst_segs, dst) ==
    read_key_by_rowid(src_segs, src) = read_key_by_rowid(dst_segs, dst)

\* The locations of one source rowset. unsupported: the rowsets whose primary
\* key index answers NOT_IMPLEMENTED_ERROR (the loop over the rowset's
\* locations is left); fail_at: the read that fails. A failed DCHECK ends a
\* debug build.
RECURSIVE check_locations(_, _, _, _, _, _)
check_locations(rs, locations, dst_segs, unsupported, fail_at, debug) ==
    IF locations = << >> \/ rs \in unsupported THEN "OK"
    ELSE IF fail_at \in {"src_key", "dst_key"}
    THEN (IF debug THEN "ABORT" ELSE "IO_ERROR")
    ELSE IF ~keys_equal(rowsets[rs].segs, Head(locations)[1], dst_segs, Head(locations)[2])
    THEN (IF debug THEN "ABORT" ELSE "INTERNAL_ERROR")
    ELSE check_locations(rs, Tail(locations), dst_segs, unsupported, fail_at, debug)

\* order: the order the map (keyed by the rowsets' addresses) is walked in.
RECURSIVE check_rowsets(_, _, _, _, _, _)
check_rowsets(order, map, dst_segs, unsupported, fail_at, debug) ==
    IF order = << >> THEN "OK"
    ELSE IF fail_at = "load_src" THEN "IO_ERROR"
    ELSE LET Checked(st) ==
                 IF st # "OK" THEN st
                 ELSE check_rowsets(Tail(order), map, dst_segs, unsupported, fail_at, debug)
         IN  Checked(check_locations(Head(order), map[Head(order)], dst_segs,
                                     unsupported, fail_at, debug))

check_rowid_conversion(dst_segs, location_map, order, unsupported, fail_at, debug) ==
    IF DOMAIN location_map = {} THEN "OK"
    ELSE IF fail_at = "load_dst" THEN "IO_ERROR"
    ELSE check_rowsets(order, location_map, dst_segs, unsupported, fail_at, debug)

\* ------------------------------------------------------------ transactions
\* The sorted key sequences a segment can hold, and the segment lists a
\* rowset can be written with (none: the load wrote no row).
RECURSIVE KeysAscending(_)
KeysAscending(S) ==
    IF S = {} THEN << >>
    ELSE <<Min(S)>> \o KeysAscending(S \ {Min(S)})

SegmentKeys == {KeysAscending(S) : S \in (SUBSET Keys) \ {{}}}
Contents == UNION {[1 .. n -> SegmentKeys] : n \in 0 .. MaxSegs}

NoFail == [seg |-> -1, row |-> -1, at |-> "none"]

\* The steps of a calculation over the rowset that can fail.
CalcFails(rs) ==
    {[at |-> "calc", seg |-> j - 1, row |-> i] :
        <<j, i>> \in {x \in (1 .. num_segments(rs)) \X (0 .. NumKeys) :
                        x[2] <= Len(rowsets[rs].segs[x[1]])}}

InitTxn ==
    [pc |-> "none", rowset_ids |-> {}, delete_bitmap |-> {}, mode |-> "NONE",
     seq_in |-> FALSE, max_version_in_flush_phase |-> -1,
     work |-> {}, cur_rowset_ids |-> {}, blocks |-> << >>, status |-> "NONE",
     check_failed |-> FALSE, checked |-> TRUE, commit_bitmap |-> {},
     failed_in |-> "none", failed_at |-> "none", deferred |-> FALSE, saved |-> FALSE]

NoRowset == [version |-> 0, segs |-> << >>, by_compaction |-> FALSE]

Init ==
    /\ tablet_state \in {"RUNNING", "NOTREADY"}
    /\ rs_version_map = {}
    /\ rowsets = [r \in Txns |-> NoRowset]
    /\ tablet_bitmap = {}
    /\ converted = {}
    /\ txn = [t \in Txns |-> InitTxn]
    /\ rowset_update_lock = 0
    /\ enable_mow_check \in BOOLEAN
    /\ has_sequence_col \in BOOLEAN
    /\ dcheck = "none"
    /\ io_errors = TRUE
    /\ scheduler = InitScheduler(Min(HighWaterMarks), FALSE)
    /\ compaction = NoCompaction
    /\ NoUnits

\* ------------------------------------------------------------------- write
\* The load opens its rowset builder (init_mow_context: the rowset ids and
\* the max version known when the write starts; a tablet under alter clears
\* the set) and writes its segments.
open_rowset(t, content, seq, mode, seq_in) ==
    /\ get_all_rs_id_unlocked(max_version_unlocked).ok
    /\ rowsets' = [rowsets EXCEPT ![t] =
          [version |-> VersionOf(t),
           segs |-> [j \in 1 .. Len(content) |->
                       [i \in 1 .. Len(content[j]) |->
                           [key |-> content[j][i],
                            seq |-> IF seq_in THEN seq ELSE 0]]],
           by_compaction |-> FALSE]]
    /\ txn' = [txn EXCEPT ![t] =
          [@ EXCEPT !.pc = "open",
                    !.mode = mode,
                    !.seq_in = seq_in,
                    !.max_version_in_flush_phase = max_version_unlocked,
                    !.rowset_ids =
                        IF tablet_state = "NOTREADY" THEN {}
                        ELSE get_all_rs_id_unlocked(max_version_unlocked).ids]]

\* A full-row load: every row carries the sequence column when the schema
\* has one.
Write(t) ==
    /\ dcheck # "aborted"
    /\ txn[t].pc = "none"
    /\ \E content \in Contents, seq \in Seqs :
        /\ has_sequence_col \/ seq = 0
        /\ open_rowset(t, content, seq, "NONE", has_sequence_col)
    /\ UNCHANGED <<unit_vars, scheduler, compaction, tablet_state, rs_version_map, tablet_bitmap, converted,
                   rowset_update_lock, enable_mow_check, has_sequence_col, dcheck, io_errors>>

\* A fixed partial-update load, with or without the sequence column among
\* its columns; a tablet under alter takes none.
WritePartial(t) ==
    /\ dcheck # "aborted"
    /\ txn[t].pc = "none"
    /\ tablet_state # "NOTREADY"
    /\ \E content \in Contents, seq \in Seqs, seq_in \in BOOLEAN :
        /\ has_sequence_col \/ (seq = 0 /\ ~seq_in)
        /\ seq_in \/ seq = 0
        /\ open_rowset(t, content, seq, "FIXED", seq_in)
    /\ UNCHANGED <<unit_vars, scheduler, compaction, tablet_state, rs_version_map, tablet_bitmap, converted,
                   rowset_update_lock, enable_mow_check, has_sequence_col, dcheck, io_errors>>

\* ------------------------------------------------------------ flush phase
\* The segment writer of a partial update looks every row up in the rowsets
\* known when the write started: a found row is marked (the new row itself
\* when the found one carries a larger sequence value), and a load that does
\* not specify the sequence column takes the found row's sequence value.
flush_lookup(t, row) ==
    lookup_row_key(row.key, row.seq, txn[t].seq_in /\ has_sequence_col,
                   get_rowset_by_ids(txn[t].rowset_ids),
                   txn[t].max_version_in_flush_phase, tablet_bitmap)

flush_partial_rows(t) ==
    [j \in 1 .. num_segments(t) |->
        [i \in 1 .. Len(rowsets[t].segs[j]) |->
            LET row == rowsets[t].segs[j][i]
                Filled(r) == IF r.st = "OK" /\ ~txn[t].seq_in
                             THEN [row EXCEPT !.seq = RowAt(r.loc).seq]
                             ELSE row
            IN  Filled(flush_lookup(t, row))]]

flush_partial_bitmap(t) ==
    LET S == rowsets[t].segs
        Rows == {<<j, i>> \in (1 .. Len(S)) \X (1 .. NumKeys) : i <= Len(S[j])}
        Mark(a, r) ==
            IF r.st = "KEY_ALREADY_EXISTS"
            THEN {<<t, a[1] - 1, TEMP_VERSION_COMMON, a[2] - 1>>}
            ELSE IF r.st = "OK"
            THEN {<<r.loc[1], r.loc[2], TEMP_VERSION_COMMON, r.loc[3]>>}
            ELSE {}
        Marked(marks) ==
            IF enable_mow_check /\ Rows # {} /\ txn[t].rowset_ids # {}
            THEN add_sentinel_mark_to_delete_bitmap(marks, txn[t].rowset_ids)
            ELSE marks
    IN  Marked(UNION {Mark(a, flush_lookup(t, S[a[1]][a[2]])) : a \in Rows})

\* A full-row load computes the bitmap of every flushed segment against the
\* rowsets known when the write started.
flush_bitmap(t) ==
    IF txn[t].mode = "NONE"
    THEN calc_delete_bitmap(t, num_segments(t), get_rowset_by_ids(txn[t].rowset_ids), {},
                            txn[t].max_version_in_flush_phase, FALSE, NoWriter,
                            tablet_bitmap, <<-1, -1>>).bm
    ELSE flush_partial_bitmap(t)

\* ------------------------------------------ commit_phase_update_delete_bitmap
\* A commit phase that does not look at the tablet's state (a faulty variant).
commit_phase_in_any_state(rs, pre_rowset_ids, bm, fail) ==
    LET cur_version == max_version_unlocked
        cur == get_all_rs_id_unlocked(cur_version)
        d   == rowset_ids_difference(cur.ids, pre_rowset_ids)
        Result(r) ==
            IF ~cur.ok
            THEN [st |-> "ERROR", bm |-> bm, pre_rowset_ids |-> pre_rowset_ids]
            ELSE IF r.st # "OK"
            THEN [st |-> "ERROR", bm |-> r.bm, pre_rowset_ids |-> pre_rowset_ids]
            ELSE [st |-> "OK", bm |-> r.bm, pre_rowset_ids |-> cur.ids]
    IN  Result(calc_delete_bitmap(rs, num_segments(rs), get_rowset_by_ids(d.to_add),
                                  remove_all(bm, d.to_del), cur_version, TRUE, NoWriter,
                                  tablet_bitmap, <<fail.seg, fail.row>>))

commit_phase_update_delete_bitmap(rs, pre_rowset_ids, bm, fail) ==
    IF tablet_state = "NOTREADY"
    THEN [st |-> "OK", bm |-> bm, pre_rowset_ids |-> pre_rowset_ids]
    ELSE
    LET cur_version == max_version_unlocked
        cur == get_all_rs_id_unlocked(cur_version)
        d   == rowset_ids_difference(cur.ids, pre_rowset_ids)
        Result(r) ==
            IF ~cur.ok
            THEN [st |-> "ERROR", bm |-> bm, pre_rowset_ids |-> pre_rowset_ids]
            ELSE IF r.st # "OK"
            THEN [st |-> "ERROR", bm |-> r.bm, pre_rowset_ids |-> pre_rowset_ids]
            ELSE [st |-> "OK", bm |-> r.bm, pre_rowset_ids |-> cur.ids]
    IN  Result(calc_delete_bitmap(rs, num_segments(rs), get_rowset_by_ids(d.to_add),
                                  remove_all(bm, d.to_del), cur_version, TRUE, NoWriter,
                                  tablet_bitmap, <<fail.seg, fail.row>>))

\* The load closes: the bitmap of the flushed segments, the bitmap between
\* the segments of the rowset, and for a full-row load the commit phase.
\* A commit phase that fails aborts the load.
Commit(t) ==
    /\ dcheck # "aborted"
    /\ txn[t].pc = "open"
    /\ LET CommitPhase(bm0) ==
               IF txn[t].mode = "NONE"
               THEN commit_phase_update_delete_bitmap(t, txn[t].rowset_ids, bm0, NoFail)
               ELSE [st |-> "OK", bm |-> bm0, pre_rowset_ids |-> txn[t].rowset_ids]
           Close(c) ==
               /\ rowsets' = IF txn[t].mode = "NONE" THEN rowsets
                             ELSE [rowsets EXCEPT ![t].segs = flush_partial_rows(t)]
               /\ txn' = [txn EXCEPT ![t] =
                     IF c.st = "OK"
                     THEN [@ EXCEPT !.pc = "committed",
                                    !.delete_bitmap = c.bm,
                                    !.rowset_ids = c.pre_rowset_ids,
                                    !.checked = enable_mow_check,
                                    !.commit_bitmap = c.bm]
                     ELSE [InitTxn EXCEPT !.pc = "aborted"]]
       IN  Close(CommitPhase(calc_delete_bitmap_between_segments(t, flush_bitmap(t))))
    /\ UNCHANGED <<unit_vars, scheduler, compaction, tablet_state, rs_version_map, tablet_bitmap, converted,
                   rowset_update_lock, enable_mow_check, has_sequence_col, dcheck, io_errors>>

\* ----------------------------------------------------- update_delete_bitmap
\* Every compaction output skipped, whatever its version (a faulty variant
\* of the test below).
skips_every_compaction_output(t, r) == rowsets[r].by_compaction

\* The rowsets a partial update need not align against: produced by
\* compaction and ending at or before the version seen in the flush phase.
skips_alignment(t, r) ==
    /\ rowsets[r].version <= txn[t].max_version_in_flush_phase
    /\ rowsets[r].by_compaction

RECURSIVE select_rowsets(_, _, _)
select_rowsets(t, q, skipped) ==
    IF q = << >> THEN << >>
    ELSE (IF skips_alignment(t, Head(q)) = skipped THEN <<Head(q)>> ELSE << >>)
         \o select_rowsets(t, Tail(q), skipped)

\* A working bitmap shared with the transaction whatever the load (a faulty
\* variant of the copy below).
shared_delete_bitmap(partial, bm_in, work) == work

\* DeleteBitmapPtr delete_bitmap = txn_info->delete_bitmap, replaced for a
\* partial update by a copy: what txn_info->delete_bitmap holds once the
\* local delete_bitmap has been worked on.
txn_info_delete_bitmap(partial, bm_in, work) == IF partial THEN bm_in ELSE work

\* update_delete_bitmap up to the correctness check (lines 1477-1616).
\* bm_in is txn_info->delete_bitmap. The result holds the status, the local
\* delete_bitmap (work), the value txn_info->delete_bitmap is left with (the
\* same object unless the load is a partial update, which works on a copy),
\* the blocks flushed to the transient rowset writer, and whether the
\* tablet was under alter (deferred) or the sentinel check failed.
update_delete_bitmap_calc(t, bm_in, nsegs, fail, debug) ==
    LET partial == txn[t].mode # "NONE"
        cur_version == rowsets[t].version
        next_visible_version == rowsets[t].version
        cur == get_all_rs_id_unlocked(next_visible_version - 1)
        d   == rowset_ids_difference(cur.ids, txn[t].rowset_ids)
        Result(st, at, work, deferred, blocks, check_failed) ==
            [st |-> st, at |-> at, work |-> work,
             txn_bitmap |-> txn_info_delete_bitmap(partial, bm_in, work),
             cur_rowset_ids |-> IF at \in {"writer", "load"} \/ deferred THEN {} ELSE cur.ids,
             deferred |-> deferred, blocks |-> blocks,
             check_failed |-> check_failed]
        \* lines 1608-1616: the outcome of the correctness check is logged.
        Checked(r2, check) ==
            Result(IF check = "ABORT" THEN "ABORT" ELSE "OK", "none", r2.bm, FALSE,
                   r2.blocks, check # "OK")
        \* lines 1590-1606: the calculation against the specified rowsets.
        Calculated(r2) ==
            IF r2.st # "OK" THEN Result("ERROR", "calc", r2.bm, FALSE, << >>, FALSE)
            ELSE Checked(r2, IF enable_mow_check /\ num_rows(t) # 0
                             THEN check_delete_bitmap_correctness(r2.bm, cur.ids, debug)
                             ELSE "OK")
        Aligned(r1, specified_rowsets) ==
            IF r1.st # "OK" THEN Result("ERROR", "skip", r1.bm, FALSE, << >>, FALSE)
            ELSE Calculated(
                    calc_delete_bitmap(t, nsegs, specified_rowsets, r1.bm, cur_version - 1,
                                       nsegs > 1,
                                       IF partial THEN Writer(txn[t].mode, txn[t].seq_in)
                                       ELSE NoWriter,
                                       tablet_bitmap,
                                       IF fail.at = "calc" THEN <<fail.seg, fail.row>>
                                       ELSE <<-1, -1>>))
        \* lines 1545-1586: the rowsets a partial update need not align
        \* against get a calculation without the writer.
        Skipped(bm1, all_specified, rowsets_skip_alignment) ==
            Aligned(IF rowsets_skip_alignment # << >>
                    THEN calc_delete_bitmap(t, nsegs, rowsets_skip_alignment, bm1,
                                            cur_version - 1, TRUE, NoWriter, tablet_bitmap,
                                            IF fail.at = "skip" THEN <<fail.seg, fail.row>>
                                            ELSE <<-1, -1>>)
                    ELSE [st |-> "OK", bm |-> bm1, blocks |-> << >>],
                    IF rowsets_skip_alignment # << >>
                    THEN select_rowsets(t, all_specified, FALSE) ELSE all_specified)
        \* lines 1519-1543: the entries of the vanished rowsets are removed
        \* and the rowsets to add are fetched.
        Diffed(bm1, all_specified) ==
            Skipped(bm1, all_specified,
                    IF partial THEN select_rowsets(t, all_specified, TRUE) ELSE << >>)
    IN  IF (partial /\ fail.at = "writer") \/ fail.at = "load"
        THEN Result("ERROR", fail.at, bm_in, FALSE, << >>, FALSE)
        ELSE IF tablet_state = "NOTREADY" THEN Result("OK", "none", bm_in, TRUE, << >>, FALSE)
        ELSE IF ~cur.ok THEN Result("ERROR", "capture", bm_in, FALSE, << >>, FALSE)
        ELSE Diffed(remove_all(bm_in, d.to_del), get_rowset_by_ids(d.to_add))

\* save_delete_bitmap: the marks of the working bitmap, the sentinel marks
\* excepted, merged into the tablet's bitmap under the rowset's version.
save_delete_bitmap(bm, cur_version) ==
    tablet_bitmap \cup
    {<<m[1], m[2], cur_version, m[4]>> : m \in {x \in bm : x[2] # INVALID_SEGMENT_ID}}

\* A save that writes the working bitmap before the transient rowset is
\* flushed and before the save itself is known to succeed (a faulty variant).
update_delete_bitmap_save_first(t, fail) ==
    [st |-> IF fail.at = "none" THEN "OK" ELSE "ERROR",
     saved |-> TRUE,
     segs |-> IF txn[t].mode # "NONE" /\ fail.at # "flush"
              THEN rowsets[t].segs \o txn[t].blocks ELSE rowsets[t].segs,
     txn_bitmap |-> IF txn[t].mode # "NONE" /\ fail.at # "flush"
                    THEN txn[t].work ELSE txn[t].delete_bitmap,
     tablet_bitmap |-> save_delete_bitmap(txn[t].work, rowsets[t].version)]

\* A save whose failure leaves the bitmap written (a faulty variant).
update_delete_bitmap_save_torn(t, fail) ==
    [st |-> IF fail.at = "none" THEN "OK" ELSE "ERROR",
     saved |-> ~(txn[t].mode # "NONE" /\ fail.at = "flush"),
     segs |-> IF txn[t].mode # "NONE" /\ fail.at # "flush"
              THEN rowsets[t].segs \o txn[t].blocks ELSE rowsets[t].segs,
     txn_bitmap |-> IF txn[t].mode # "NONE" /\ fail.at # "flush"
                    THEN txn[t].work ELSE txn[t].delete_bitmap,
     tablet_bitmap |-> IF txn[t].mode # "NONE" /\ fail.at = "flush" THEN tablet_bitmap
                       ELSE save_delete_bitmap(txn[t].work, rowsets[t].version)]

\* update_delete_bitmap from the transient rowset writer on (lines
\* 1618-1665). fail: "flush" (the writer's flush or build), "save"
\* (save_delete_bitmap), "cache" (check_delete_bitmap_cache), or none.
\* The result holds the status, the rowset's segments, the value of
\* txn_info->delete_bitmap and the tablet's bitmap.
update_delete_bitmap_save(t, fail) ==
    LET partial == txn[t].mode # "NONE"
        merged  == [st |-> "OK", saved |-> FALSE,
                    segs |-> IF partial THEN rowsets[t].segs \o txn[t].blocks
                             ELSE rowsets[t].segs,
                    txn_bitmap |-> IF partial THEN txn[t].work ELSE txn[t].delete_bitmap,
                    tablet_bitmap |-> tablet_bitmap]
    IN  IF partial /\ fail.at = "flush"
        THEN [st |-> "ERROR", saved |-> FALSE, segs |-> rowsets[t].segs,
              txn_bitmap |-> txn[t].delete_bitmap, tablet_bitmap |-> tablet_bitmap]
        ELSE IF fail.at = "save"
        THEN [merged EXCEPT !.st = "ERROR"]
        ELSE IF fail.at = "cache"
        THEN [merged EXCEPT !.st = "ERROR", !.saved = TRUE,
                            !.tablet_bitmap = save_delete_bitmap(txn[t].work, rowsets[t].version)]
        ELSE [merged EXCEPT !.saved = TRUE,
                            !.tablet_bitmap = save_delete_bitmap(txn[t].work, rowsets[t].version)]

\* ----------------------------------------------------------------- publish
\* A lock that is granted whoever holds it (a faulty variant).
lock_always_granted(holder) == TRUE

\* std::lock_guard on the tablet's _rowset_update_lock, taken by the caller of
\* update_delete_bitmap and of update_delete_bitmap_without_lock.
try_lock(holder) == rowset_update_lock = 0

\* The steps of update_delete_bitmap an error can be injected into.
NoStep == NoFail

PublishFails(t) ==
    IF ~io_errors THEN {}
    ELSE CalcFails(t) \cup {[NoStep EXCEPT !.at = "load"]}
         \cup (IF txn[t].mode # "NONE" THEN {[NoStep EXCEPT !.at = "writer"]} ELSE {})

\* A publish failing after the transient rowset was merged leaves the rowset
\* with more segments: such failures are taken only up to MaxMergedSegs.
SaveFails(t) ==
    IF ~io_errors THEN {}
    ELSE (IF txn[t].mode # "NONE" THEN {[NoStep EXCEPT !.at = "flush"]} ELSE {})
         \cup (IF num_segments(t) + Len(txn[t].blocks) <= MaxMergedSegs
               THEN {[NoStep EXCEPT !.at = "save"], [NoStep EXCEPT !.at = "cache"]}
               ELSE {})

\* The publish task of the transaction takes the rowset-update lock and
\* calls update_delete_bitmap: snapshot, diff, calculation, correctness check.
Align(t) ==
    /\ dcheck # "aborted"
    /\ txn[t].pc = "committed"
    /\ try_lock(t)
    /\ rowset_update_lock' = t
    /\ \E fail \in {NoFail} \cup PublishFails(t) :
        LET Returned(r, debug) ==
            /\ txn' = [txn EXCEPT ![t] =
                  [@ EXCEPT !.pc = IF r.st = "OK" /\ ~r.deferred THEN "aligned"
                                   ELSE IF r.st = "ABORT" THEN "publishing"
                                   ELSE "returned",
                            !.status = r.st,
                            !.deferred = r.deferred,
                            !.delete_bitmap = r.txn_bitmap,
                            !.work = r.work,
                            !.cur_rowset_ids = r.cur_rowset_ids,
                            !.blocks = r.blocks,
                            !.check_failed = r.check_failed,
                            !.checked = IF r.deferred THEN @ ELSE @ /\ enable_mow_check,
                            !.failed_at = r.at,
                            !.failed_in = IF r.at # "none" /\ @ = "none" THEN "calc" ELSE @]]
            /\ dcheck' = IF ~r.check_failed THEN dcheck
                         ELSE IF debug THEN "aborted" ELSE "compiled_out"
            \* the build shows only when a DCHECK fails
            Built(r0) ==
                \E debug \in (IF r0.check_failed THEN Builds ELSE {FALSE}) :
                    Returned(IF debug
                             THEN update_delete_bitmap_calc(t, txn[t].delete_bitmap,
                                                            num_segments(t), fail, TRUE)
                             ELSE r0, debug)
        IN  Built(update_delete_bitmap_calc(t, txn[t].delete_bitmap, num_segments(t), fail,
                                            FALSE))
    /\ UNCHANGED <<unit_vars, scheduler, compaction, tablet_state, rs_version_map, rowsets, tablet_bitmap, converted,
                   enable_mow_check, has_sequence_col, io_errors>>

\* update_delete_bitmap: the transient rowset is merged, the bitmap saved.
Save(t) ==
    /\ dcheck # "aborted"
    /\ txn[t].pc = "aligned"
    /\ \E fail \in {NoFail} \cup SaveFails(t) :
        LET Returned(r) ==
            /\ rowsets' = [rowsets EXCEPT ![t].segs = r.segs]
            /\ tablet_bitmap' = r.tablet_bitmap
            /\ txn' = [txn EXCEPT ![t] =
                  [@ EXCEPT !.pc = "returned",
                            !.status = r.st,
                            !.delete_bitmap = r.txn_bitmap,
                            !.saved = @ \/ r.saved,
                            !.failed_at = fail.at,
                            !.failed_in = IF r.st = "OK" THEN @ ELSE "save"]]
        IN  Returned(update_delete_bitmap_save(t, fail))
    /\ UNCHANGED <<unit_vars, scheduler, compaction, tablet_state, rs_version_map, converted, rowset_update_lock,
                   enable_mow_check, has_sequence_col, dcheck, io_errors>>

\* update_delete_bitmap has returned: the publish task makes the rowset
\* visible when the status is OK and leaves the transaction to be retried
\* otherwise; it releases the lock.
PublishEnd(t) ==
    /\ dcheck # "aborted"
    /\ txn[t].pc = "returned"
    /\ rowset_update_lock' = 0
    /\ rs_version_map' = IF txn[t].status = "OK" THEN rs_version_map \cup {t}
                         ELSE rs_version_map
    /\ txn' = [txn EXCEPT ![t] =
          [@ EXCEPT !.pc = IF txn[t].status = "OK" THEN "published" ELSE "committed",
                    !.work = {}, !.blocks = << >>, !.failed_at = "none",
                    !.failed_in = IF txn[t].status = "OK" THEN "none" ELSE @]]
    /\ UNCHANGED <<unit_vars, scheduler, compaction, tablet_state, rowsets, tablet_bitmap, converted,
                   enable_mow_check, has_sequence_col, dcheck, io_errors>>

\* --------------------------------------------- update_delete_bitmap_without_lock
\* The bitmap of a rowset of a tablet under alter, computed against every
\* rowset below its version and merged into the tablet's bitmap.
\* A merge that keeps the version the marks were computed under (a faulty
\* variant of the loop below).
merge_keeping_version(bm, cur_version) == tablet_bitmap \cup bm

\* for (iter : delete_bitmap) _tablet_meta->delete_bitmap().merge(
\*     {rowset, segment, cur_version}, rows)
merge_at_version(bm, cur_version) ==
    tablet_bitmap \cup {<<m[1], m[2], cur_version, m[4]>> : m \in bm}

update_delete_bitmap_without_lock(rs, debug) ==
    LET cur_version == rowsets[rs].version
        bm0 == calc_delete_bitmap_between_segments(rs, {})
        cur == get_all_rs_id_unlocked(cur_version - 1)
        specified_rowsets == get_rowset_by_ids(cur.ids)
        \* lines 1826-1843: the check, the sentinel marks removed, the merge.
        Checked(r, check) ==
            IF check = "ABORT"
            THEN [st |-> "ABORT", check_failed |-> TRUE, tablet_bitmap |-> tablet_bitmap]
            ELSE [st |-> "OK", check_failed |-> check # "OK",
                  tablet_bitmap |->
                      merge_at_version(IF enable_mow_check THEN remove_sentinel_marks(r.bm)
                                       ELSE r.bm, cur_version)]
        Calculated(r) ==
            IF ~cur.ok \/ r.st # "OK"
            THEN [st |-> "ERROR", check_failed |-> FALSE, tablet_bitmap |-> tablet_bitmap]
            ELSE Checked(r, IF enable_mow_check
                            THEN check_delete_bitmap_correctness(r.bm, cur.ids, debug)
                            ELSE "OK")
    IN  IF num_segments(rs) = 0
        THEN [st |-> "OK", check_failed |-> FALSE, tablet_bitmap |-> tablet_bitmap]
        ELSE Calculated(calc_delete_bitmap(rs, num_segments(rs), specified_rowsets, bm0,
                                           cur_version - 1, TRUE, NoWriter, tablet_bitmap,
                                           <<-1, -1>>))

\* The alter process, holding the rowset-update lock, computes the bitmap of
\* the visible rowsets published while the tablet was not ready, in version
\* order.
ConvertRowset(rs) ==
    /\ dcheck # "aborted"
    /\ tablet_state = "NOTREADY"
    /\ try_lock(0)
    /\ rs \in rs_version_map \ converted
    /\ \A o \in rs_version_map \ converted : rowsets[rs].version <= rowsets[o].version
    /\ LET Returned(r, debug) ==
            /\ tablet_bitmap' = r.tablet_bitmap
            /\ converted' = IF r.st = "OK" THEN converted \cup {rs} ELSE converted
            /\ dcheck' = IF ~r.check_failed THEN dcheck
                         ELSE IF debug THEN "aborted" ELSE "compiled_out"
           \* the build shows only when a DCHECK fails
           Built(r0) ==
            \E debug \in (IF r0.check_failed THEN Builds ELSE {FALSE}) :
                Returned(IF debug THEN update_delete_bitmap_without_lock(rs, TRUE) ELSE r0,
                         debug)
       IN  Built(update_delete_bitmap_without_lock(rs, FALSE))
    /\ UNCHANGED <<unit_vars, scheduler, compaction, tablet_state, rs_version_map, rowsets, txn, rowset_update_lock,
                   enable_mow_check, has_sequence_col, io_errors>>

\* A state set whatever the tablet is in (a faulty variant).
set_tablet_state_unchecked(state) == [st |-> "OK", state |-> state]

set_tablet_state(state) ==
    IF tablet_state = "SHUTDOWN" /\ state # "SHUTDOWN"
    THEN [st |-> "META_INVALID_ARGUMENT", state |-> tablet_state]
    ELSE [st |-> "OK", state |-> state]

\* The alter process ends: the visible versions are continuous and every
\* visible rowset has its bitmap.
FinishAlter ==
    /\ dcheck # "aborted"
    /\ tablet_state = "NOTREADY"
    /\ try_lock(0)
    /\ get_all_rs_id_unlocked(max_version_unlocked).ok
    /\ rs_version_map \subseteq converted
    /\ tablet_state' = set_tablet_state("RUNNING").state
    /\ UNCHANGED <<unit_vars, scheduler, compaction, rs_version_map, rowsets, tablet_bitmap, converted, txn,
                   rowset_update_lock, enable_mow_check, has_sequence_col, dcheck, io_errors>>

\* config::enable_merge_on_write_correctness_check is switched on at run time.
SetConfig ==
    /\ dcheck # "aborted"
    /\ enable_mow_check' = ~enable_mow_check
    /\ UNCHANGED <<unit_vars, scheduler, compaction, tablet_state, rs_version_map, rowsets, tablet_bitmap, converted, txn,
                   rowset_update_lock, has_sequence_col, dcheck, io_errors>>

Next ==
    \/ \E t \in Txns : Write(t)
    \/ \E t \in Txns : WritePartial(t)
    \/ \E t \in Txns : Commit(t)
    \/ \E t \in Txns : Align(t)
    \/ \E t \in Txns : Save(t)
    \/ \E t \in Txns : PublishEnd(t)
    \/ \E rs \in Txns : ConvertRowset(rs)
    \/ FinishAlter

Spec == Init /\ [][Next]_vars

\* The correctness check is switched at run time; no I/O step fails and the
\* schema has no sequence column.
InitCheck ==
    /\ tablet_state \in {"RUNNING", "NOTREADY"}
    /\ rs_version_map = {}
    /\ rowsets = [r \in Txns |-> NoRowset]
    /\ tablet_bitmap = {}
    /\ converted = {}
    /\ txn = [t \in Txns |-> InitTxn]
    /\ rowset_update_lock = 0
    /\ enable_mow_check \in BOOLEAN
    /\ has_sequence_col = FALSE
    /\ dcheck = "none"
    /\ io_errors = FALSE
    /\ scheduler = InitScheduler(Min(HighWaterMarks), FALSE)
    /\ compaction = NoCompaction
    /\ NoUnits

NextCheck ==
    \/ Next
    \/ SetConfig

SpecCheck == InitCheck /\ [][NextCheck]_vars

\* --------------------------------------------- the scheduler's specification
tablet_vars == <<tablet_state, rs_version_map, rowsets, tablet_bitmap, converted, txn,
                 rowset_update_lock, enable_mow_check, has_sequence_col, dcheck, io_errors>>

\* _submit_compaction_task called for one tablet (a manual or a test submission).
SubmitCompactionTask ==
    /\ scheduler.total_queued_tasks < MaxQueued
    /\ scheduler' = submit_compaction_task(scheduler)
    /\ UNCHANGED <<unit_vars, tablet_vars, compaction>>

\* _compaction_tasks_producer_callback: one round.
ProducerRound ==
    /\ \E eligible \in 0 .. MaxQueued - scheduler.total_queued_tasks :
           scheduler' = producer_round(scheduler, eligible)
    /\ UNCHANGED <<unit_vars, tablet_vars, compaction>>

\* A thread of the pool takes the task at the head of the queue and runs it.
ExecuteCompaction ==
    /\ scheduler.total_queued_tasks > 0
    /\ has_idle_thread(scheduler)
    /\ scheduler' = [scheduler EXCEPT !.total_queued_tasks = @ - 1, !.executing = @ + 1]
    /\ UNCHANGED <<unit_vars, tablet_vars, compaction>>

\* The running task ends and leaves the registry.
FinishCompaction ==
    /\ scheduler.executing > 0
    /\ scheduler' = [scheduler EXCEPT !.executing = @ - 1]
    /\ UNCHANGED <<unit_vars, tablet_vars, compaction>>

InitSched ==
    /\ tablet_state = "RUNNING"
    /\ rs_version_map = {}
    /\ rowsets = [r \in Txns |-> NoRowset]
    /\ tablet_bitmap = {}
    /\ converted = {}
    /\ txn = [t \in Txns |-> InitTxn]
    /\ rowset_update_lock = 0
    /\ enable_mow_check = FALSE
    /\ has_sequence_col = FALSE
    /\ dcheck = "none"
    /\ io_errors = FALSE
    /\ \E high_water \in HighWaterMarks, disabled \in BOOLEAN :
           scheduler = InitScheduler(high_water, disabled)
    /\ compaction = NoCompaction
    /\ NoUnits

NextSched ==
    \/ SubmitCompactionTask
    \/ ProducerRound
    \/ ExecuteCompaction
    \/ FinishCompaction

SpecSched == InitSched /\ [][NextSched]_vars

\* ------------------------------------------- the commit phase's specification
\* The id of a rowset the write saw that compaction has since replaced.
StaleRowsets == {0}

\* The marks of the rows of a published rowset that a higher segment of
\* the rowset overwrites.
between_segments_marks(rs, segs, version) ==
    {<<rs, j - 1, version, i - 1>> :
        <<j, i>> \in {x \in (1 .. Len(segs)) \X (1 .. NumKeys) :
                        /\ x[2] <= Len(segs[x[1]])
                        /\ \E k \in x[1] + 1 .. Len(segs) :
                              \E h \in 1 .. Len(segs[k]) :
                                  segs[k][h].key = segs[x[1]][x[2]].key}}

\* The marks a flush phase can have left on the rows of the rowsets it saw.
FlushMarks(pre) ==
    {<<r, j, TEMP_VERSION_COMMON, i>> :
        <<r, j, i>> \in pre \X (0 .. MaxSegs - 1) \X (0 .. NumKeys - 1)}

\* The rows a load writes into its segments.
written(content, seq) ==
    [j \in 1 .. Len(content) |->
        [i \in 1 .. Len(content[j]) |-> [key |-> content[j][i], seq |-> seq]]]

\* The flush phase of the load of the last transaction is over: the rowsets
\* it saw (some since replaced), the bitmap it computed; the rowset of the
\* first transaction is published or not.
InitCommit ==
    /\ tablet_state \in {"RUNNING", "NOTREADY"}
    /\ has_sequence_col \in BOOLEAN
    /\ enable_mow_check \in BOOLEAN
    /\ io_errors = TRUE
    /\ dcheck = "none"
    /\ converted = {}
    /\ rowset_update_lock = 0
    /\ scheduler = InitScheduler(Min(HighWaterMarks), FALSE)
    /\ compaction = NoCompaction
    /\ NoUnits
    /\ rs_version_map \in {{}, {1}}
    /\ \E content \in [Txns -> Contents], seq \in [Txns -> Seqs] :
          /\ has_sequence_col \/ \A r \in Txns : seq[r] = 0
          /\ \A r \in Txns : (r \notin {1, NumTxns}) => content[r] = << >>
          /\ rowsets = [r \in Txns |->
                [version |-> VersionOf(r), segs |-> written(content[r], seq[r]),
                 by_compaction |-> FALSE]]
    /\ tablet_bitmap = UNION {between_segments_marks(r, rowsets[r].segs, rowsets[r].version) :
                                 r \in rs_version_map}
    /\ \E pre \in SUBSET (StaleRowsets \cup {1}) :
          \E bm \in SUBSET FlushMarks(pre) :
              txn = [t \in Txns |->
                       IF t = NumTxns /\ t # 1
                       THEN [InitTxn EXCEPT !.pc = "open", !.rowset_ids = pre,
                                            !.delete_bitmap = bm,
                                            !.max_version_in_flush_phase = 1]
                       ELSE IF t \in rs_version_map
                       THEN [InitTxn EXCEPT !.pc = "published", !.status = "OK"]
                       ELSE InitTxn]

\* commit_phase_update_delete_bitmap for the load of the transaction, on the
\* bitmap and the rowset ids its flush phase left.
CommitPhase(t) ==
    /\ dcheck # "aborted"
    /\ txn[t].pc = "open"
    /\ txn[t].mode = "NONE"
    /\ \E fail \in {NoFail} \cup CalcFails(t) :
          LET Close(c) ==
                  txn' = [txn EXCEPT ![t] =
                     IF c.st = "OK"
                     THEN [@ EXCEPT !.pc = "committed",
                                    !.delete_bitmap = c.bm,
                                    !.rowset_ids = c.pre_rowset_ids,
                                    !.checked = enable_mow_check,
                                    !.commit_bitmap = c.bm]
                     ELSE [@ EXCEPT !.pc = "aborted", !.failed_in = "commit"]]
          IN  Close(commit_phase_update_delete_bitmap(t, txn[t].rowset_ids,
                                                      txn[t].delete_bitmap, fail))
    /\ UNCHANGED <<unit_vars, scheduler, compaction, tablet_state, rs_version_map, rowsets,
                   tablet_bitmap, converted, rowset_update_lock, enable_mow_check,
                   has_sequence_col, dcheck, io_errors>>

NextCommit == \E t \in Txns : CommitPhase(t)

SpecCommit == InitCommit /\ [][NextCommit]_vars

\* ---------------------------------------- the compaction's specification
\* The segments an input rowset can hold, the output rowset of the merge and
\* its rows, the versions of the entries of the tablet's bitmap, and the
\* version ranges the bitmap is converted for.
CompactionContents == {<< <<1>>, <<2>> >>, << <<1, 2>> >>}
OutputRowset == NumTxns + 1
OutputSegments == written(<< <<1, 2>> >>, 0)
DstLocs == {<<OutputRowset, 0, i - 1>> : i \in 1 .. Len(OutputSegments[1])}
MarkVersions == 2 .. 4
VersionRanges == {<<2, 3>>, <<3, 4>>}

SrcMarks ==
    {<<r, j - 1, v, i - 1>> :
        <<r, j, i, v>> \in {x \in Txns \X (1 .. MaxSegs) \X (1 .. 2) \X MarkVersions :
                              /\ x[2] <= Len(rowsets[x[1]].segs)
                              /\ x[3] <= Len(rowsets[x[1]].segs[x[2]])}}

RECURSIVE SmallSubsets(_, _)
SmallSubsets(M, n) ==
    IF n = 0 THEN {{}}
    ELSE LET Smaller(P) == P \cup {q \cup {a} : <<q, a>> \in P \X M}
         IN  Smaller(SmallSubsets(M, n - 1))

Orders(S) ==
    {o \in [1 .. Cardinality(S) -> S] : \A i, j \in 1 .. Cardinality(S) : o[i] = o[j] => i = j}

\* The merge of the published rowsets is over: the row-id conversion table
\* (its part for the rows the bitmap marks) and what the caller asks for.
InitCompaction ==
    /\ tablet_state = "RUNNING"
    /\ has_sequence_col = FALSE
    /\ enable_mow_check = FALSE
    /\ io_errors = TRUE
    /\ dcheck = "none"
    /\ converted = {}
    /\ rowset_update_lock = 0
    /\ scheduler = InitScheduler(Min(HighWaterMarks), FALSE)
    /\ NoUnits
    /\ rs_version_map = Txns
    /\ txn = [t \in Txns |-> [InitTxn EXCEPT !.pc = "published", !.status = "OK"]]
    /\ \E content \in [Txns -> CompactionContents] :
          rowsets = [r \in Txns |->
                [version |-> VersionOf(r), segs |-> written(content[r], 0),
                 by_compaction |-> FALSE]]
    /\ tablet_bitmap \in SmallSubsets(SrcMarks, MaxMarks)
    /\ \E D \in SUBSET {src_of(m) : m \in tablet_bitmap} :
       \E conv \in [D -> DstLocs] :
       \E range \in VersionRanges :
       \E want_missed \in BOOLEAN, want_locations \in BOOLEAN, closed \in BOOLEAN :
          compaction = [pc |-> "merged",
                        input_rowsets |-> sort_by_end_version(Txns),
                        rowid_conversion |-> conv,
                        start_version |-> range[1],
                        end_version |-> range[2],
                        closed |-> closed,
                        missed_rows |-> [given |-> want_missed, rows |-> {}],
                        location_map |-> [given |-> want_locations,
                                          map |-> [r \in {} |-> << >>]],
                        output_rowset_delete_bitmap |-> {},
                        unsupported |-> {},
                        st |-> "NONE"]

CalcCompactionOutput ==
    /\ dcheck # "aborted"
    /\ compaction.pc = "merged"
    /\ LET Returned(r) ==
               compaction' = [compaction EXCEPT
                   !.pc = "calculated",
                   !.output_rowset_delete_bitmap = r.output_rowset_delete_bitmap,
                   !.missed_rows = r.missed_rows,
                   !.location_map = r.location_map]
       IN  Returned(calc_compaction_output_rowset_delete_bitmap(
               compaction.input_rowsets, compaction.rowid_conversion,
               compaction.start_version, compaction.end_version,
               compaction.missed_rows, compaction.location_map, tablet_bitmap,
               compaction.output_rowset_delete_bitmap, compaction.closed))
    /\ UNCHANGED <<unit_vars, scheduler, tablet_vars>>

\* The caller checks the conversion when it asked for the location map.
CheckRowidConversion ==
    /\ dcheck # "aborted"
    /\ compaction.pc = "calculated"
    /\ compaction.location_map.given
    /\ \E order \in Orders(DOMAIN compaction.location_map.map),
          unsupported \in SUBSET Txns,
          fail_at \in {"none", "load_dst", "load_src", "src_key", "dst_key"},
          debug \in BOOLEAN :
          LET Returned(st) ==
                  /\ compaction' = [compaction EXCEPT !.pc = "checked", !.st = st,
                                                      !.unsupported = unsupported]
                  /\ dcheck' = IF st = "ABORT" THEN "aborted" ELSE dcheck
          IN  Returned(check_rowid_conversion(OutputSegments, compaction.location_map.map,
                                              order, unsupported, fail_at, debug))
    /\ UNCHANGED <<unit_vars, scheduler, tablet_state, rs_version_map, rowsets, tablet_bitmap,
                   converted, txn, rowset_update_lock, enable_mow_check,
                   has_sequence_col, io_errors>>

NextCompaction ==
    \/ CalcCompactionOutput
    \/ CheckRowidConversion

SpecCompaction == InitCompaction /\ [][NextCompaction]_vars

\* ------------------------------- calc_segment_delete_bitmap's specification
\* The rows a segment can hold here: ascending distinct keys, each row with
\* its own sequence value.
MaxRows == 2

CalcSegmentRows ==
    {[i \in 1 .. Len(ks) |-> [key |-> ks[i], seq |-> sq[i]]] :
        <<ks, sq>> \in {KeysAscending(S) : S \in (SUBSET (1 .. MaxRows)) \ {{}}}
                       \X [1 .. MaxRows -> Seqs]}

\* The statuses a lookup fails with when the environment fails it: the
\* segments cannot be loaded or read, or the memory limit is hit.
LookupFaults == {"IO_ERROR", "MEM_LIMIT_EXCEEDED"}

\* lines 730-737: a lookup status that is none of OK, KEY_NOT_FOUND and
\* KEY_ALREADY_EXISTS ends the calculation: it is returned, unless it trips
\* the DCHECK, which lets MEM_LIMIT_EXCEEDED pass and ends a debug build.
expected_st(st) == st \in {"OK", "KEY_NOT_FOUND", "KEY_ALREADY_EXISTS"}

\* A status returned whatever the build (a faulty variant of the function
\* below).
status_returned_in_any_build(st, debug) == st

unexpected_lookup_status(st, debug) ==
    IF ~expected_st(st) /\ st # "MEM_LIMIT_EXCEEDED" /\ debug THEN "ABORT" ELSE st

\* The rowset under calculation and the rowset it is calculated against.
NewRowset == NumTxns
BaseRowset == 1

\* The rowset writers a calculation can be handed.
CalcWriters ==
    {NoWriter, Writer("FIXED", FALSE), Writer("FLEXIBLE", FALSE)}
    \cup (IF has_sequence_col THEN {Writer("FIXED", TRUE)} ELSE {})

\* A published rowset of one segment, some of its rows deleted since; a new
\* rowset of one or two segments whose bitmap holds what an earlier phase
\* left: nothing, or one of its own rows.
InitCalc ==
    /\ tablet_state = "RUNNING"
    /\ has_sequence_col \in BOOLEAN
    /\ enable_mow_check \in BOOLEAN
    /\ io_errors = TRUE
    /\ dcheck = "none"
    /\ converted = {}
    /\ rowset_update_lock = 0
    /\ scheduler = InitScheduler(Min(HighWaterMarks), FALSE)
    /\ compaction = NoCompaction
    /\ rebuild = NoRebuild
    /\ calc_token = NoToken
    /\ s3_writer = NoWriterObject
    /\ state_calls = NoCalls
    /\ pk_scan = NoScan
    /\ rs_version_map = {BaseRowset}
    /\ txn = [t \in Txns |-> InitTxn]
    /\ \E base \in CalcSegmentRows, new \in [1 .. MaxSegs -> CalcSegmentRows],
          n \in 1 .. MaxSegs :
          /\ has_sequence_col
             \/ /\ \A i \in 1 .. Len(base) : base[i].seq = 0
                /\ \A j \in 1 .. n : \A i \in 1 .. Len(new[j]) : new[j][i].seq = 0
          /\ \A j \in n + 1 .. MaxSegs : new[j] = new[1]
          /\ rowsets = [r \in Txns |->
                IF r = BaseRowset
                THEN [version |-> 2, segs |-> <<base>>, by_compaction |-> FALSE]
                ELSE IF r = NewRowset
                THEN [version |-> 3, segs |-> [j \in 1 .. n |-> new[j]],
                      by_compaction |-> FALSE]
                ELSE NoRowset]
    /\ tablet_bitmap \in
          {{}} \cup {{<<BaseRowset, 0, 2, i - 1>>} :
                        i \in 1 .. Len(rowsets[BaseRowset].segs[1])}
    /\ \E bm \in {{}} \cup
                 {{<<NewRowset, j - 1, TEMP_VERSION_COMMON, i - 1>>} :
                     <<j, i>> \in {x \in (1 .. MaxSegs) \X (1 .. MaxRows) :
                                     /\ x[1] <= num_segments(NewRowset)
                                     /\ x[2] <= Len(rowsets[NewRowset].segs[x[1]])}} :
          calc = [pc |-> "ready", bm |-> bm]

\* calc_segment_delete_bitmap on one segment of the new rowset against the
\* published one, with the rowset writer of the caller. The environment can
\* fail the lookup of a row the scan reaches.
CalcSegment ==
    /\ calc.pc = "ready"
    /\ \E seg \in 0 .. num_segments(NewRowset) - 1, w \in CalcWriters,
          fail_row \in -1 .. MaxRows - 1, fault \in LookupFaults, debug \in BOOLEAN :
          /\ fail_row < Len(rowsets[NewRowset].segs[seg + 1])
          /\ fail_row >= 0 =>
                ~contains(calc.bm, NewRowset, seg, TEMP_VERSION_COMMON, fail_row)
          /\ fail_row < 0 => (fault = "IO_ERROR" /\ ~debug)
          /\ fault = "MEM_LIMIT_EXCEEDED" => ~debug
          /\ LET Returned(r) ==
                    calc' = [pc |-> "calculated", seg |-> seg, w |-> w,
                             specified_rowsets |-> <<BaseRowset>>, end_version |-> 2,
                             before |-> calc.bm, bm |-> r.bm, block |-> r.block,
                             fail_row |-> fail_row,
                             lookup_st |-> IF fail_row >= 0 THEN fault ELSE "none",
                             debug |-> debug,
                             st |-> IF r.st = "ERROR"
                                    THEN unexpected_lookup_status(fault, debug)
                                    ELSE r.st]
             IN  Returned(calc_segment_delete_bitmap(NewRowset, seg, <<BaseRowset>>, calc.bm,
                                                     2, w, tablet_bitmap, fail_row))
    /\ UNCHANGED <<tablet_vars, scheduler, compaction, rebuild, calc_token, s3_writer,
                   state_calls, pk_scan>>

\* The caller takes the result and hands the next calculation its bitmap.
CalcReturn ==
    /\ calc.pc = "calculated"
    /\ calc' = [pc |-> "returned", st |-> calc.st, bm |-> calc.bm]
    /\ UNCHANGED <<tablet_vars, scheduler, compaction, rebuild, calc_token, s3_writer,
                   state_calls, pk_scan>>

NextCalc ==
    \/ CalcSegment
    \/ CalcReturn

SpecCalc == InitCalc /\ [][NextCalc]_vars

\* ------------------------------------ generate_new_block_for_partial_update
\* The table of the reconstruction: the key column k, the value columns c1
\* and c2, the hidden delete-sign column del and, when the schema has one,
\* the hidden sequence column seq. A load updates c2; c1 is the column it can
\* leave out. Cell values are numbers: NullValue is NULL, TypeDefault the
\* default of the column's type, DefaultValue the declared default of c1;
\* the values rows are written with lie above them.
NullValue == -1
TypeDefault == 0
DefaultValue == 1
ValueA == 11
ValueB == 12
ValueY == 25
ValueZ == 26
RowSeqs == 2 .. 3

ValueColumns == IF has_sequence_col THEN {"c1", "c2", "del", "seq"} ELSE {"c1", "c2", "del"}

\* TabletColumn of a value column: c1 as the table declares it; the delete
\* sign is not nullable and defaults to 0; the sequence column is nullable
\* and has no default.
Column(name, has_default, nullable, auto_inc) ==
    [name |-> name, has_default_value |-> has_default, is_nullable |-> nullable,
     is_auto_increment |-> auto_inc, is_seqeunce_col |-> name = "seq",
     default_value |-> IF name = "del" THEN 0 ELSE DefaultValue]

Schemas ==
    {[c \in ValueColumns |->
         IF c = "c1" THEN Column("c1", d, n, a)
         ELSE IF c = "del" THEN Column("del", TRUE, FALSE, FALSE)
         ELSE IF c = "seq" THEN Column("seq", FALSE, TRUE, FALSE)
         ELSE Column(c, FALSE, TRUE, FALSE)] :
        <<d, n, a>> \in {x \in BOOLEAN \X BOOLEAN \X BOOLEAN :
                           x[3] => (~x[1] /\ ~x[2])}}

\* IColumn::insert_default: NULL in a nullable column, the type's default
\* otherwise.
insert_default(column) == IF column.is_nullable THEN NullValue ELSE TypeDefault

\* lines 1098-1108: the value a missing column gets instead of the old one.
fixed_default_value(column) ==
    IF column.has_default_value THEN column.default_value
    ELSE IF column.is_nullable THEN NullValue
    ELSE TypeDefault

\* A deleted old row that is never read (a faulty variant of the function
\* below: the sequence column is treated like every other column).
use_default_for_every_column(rs_column, old_row_delete_sign, have_input_seq) ==
    old_row_delete_sign

\* lines 1084-1096: use_default.
fixed_use_default(rs_column, old_row_delete_sign, have_input_seq) ==
    IF old_row_delete_sign
    THEN IF ~has_sequence_col THEN TRUE
         ELSE have_input_seq \/ ~rs_column.is_seqeunce_col
    ELSE FALSE

\* A cell read from the old row whatever its delete sign (a faulty variant
\* of the function below).
cell_always_from_old(rs_column, old_value, new_row_delete_sign, old_row_delete_sign, have_input_seq) ==
    old_value

\* lines 1079-1113: one cell of a missing column.
fixed_missing_cell(rs_column, old_value, new_row_delete_sign, old_row_delete_sign, have_input_seq) ==
    IF new_row_delete_sign THEN insert_default(rs_column)
    ELSE IF fixed_use_default(rs_column, old_row_delete_sign, have_input_seq)
         THEN fixed_default_value(rs_column)
         ELSE old_value

\* generate_new_block_for_partial_update: plan[idx] holds the row read from
\* the current rowset (new) and the row read through read_plan_ori (old).
\* The delete signs of the new rows are looked at only when the schema has
\* no sequence column and the load wrote the delete-sign column.
generate_new_block_for_partial_update(schema, update_cids, plan) ==
    LET have_input_seq == has_sequence_col /\ "seq" \in update_cids
        new_signs_given == ~has_sequence_col /\ "del" \in update_cids
    IN  [idx \in 1 .. Len(plan) |->
            [c \in {"k"} \cup ValueColumns |->
                IF c = "k" \/ c \in update_cids THEN plan[idx].new[c]
                ELSE fixed_missing_cell(schema[c], plan[idx].old[c],
                                        new_signs_given /\ plan[idx].new["del"] # 0,
                                        plan[idx].old["del"] # 0, have_input_seq)]]

\* No overwritten row kept (a faulty variant of the function below).
overwritten_rows_all_dropped(rids_be_overwritten, plan) == {}

\* lines 1182-1194: of the rows overwritten by a row with a larger sequence
\* value, those that specify the sequence column stay in the set.
filter_rids_be_overwritten(rids_be_overwritten, plan) ==
    IF has_sequence_col /\ rids_be_overwritten # {}
    THEN {rid \in rids_be_overwritten : "seq" \notin plan[rid + 1].skip}
    ELSE rids_be_overwritten

\* lines 1196-1245: fill_one_cell.
fill_one_cell(tablet_column, sequence_map_col, old_value, cur_value, skipped, row_has_sequence_col, old_row_delete_sign) ==
    IF ~skipped THEN cur_value
    ELSE LET use_default ==
                 IF old_row_delete_sign
                 THEN IF ~has_sequence_col THEN TRUE
                      ELSE \/ row_has_sequence_col
                           \/ /\ ~tablet_column.is_seqeunce_col
                              /\ tablet_column.name # sequence_map_col
                 ELSE FALSE
         IN  IF ~use_default THEN old_value
             ELSE IF tablet_column.has_default_value THEN tablet_column.default_value
             ELSE IF tablet_column.is_nullable THEN NullValue
             ELSE IF tablet_column.is_auto_increment THEN cur_value
             ELSE TypeDefault

\* generate_new_block_for_flexible_partial_update: plan[idx].skip is the skip
\* bitmap of the new row, the columns the row does not specify.
generate_new_block_for_flexible_partial_update(schema, sequence_map_col, rids_be_overwritten, plan) ==
    LET rids == filter_rids_be_overwritten(rids_be_overwritten, plan)
    IN  [idx \in 1 .. Len(plan) |->
            [c \in {"k"} \cup ValueColumns |->
                IF c = "k" THEN plan[idx].new[c]
                ELSE IF (idx - 1) \in rids THEN plan[idx].old[c]
                ELSE fill_one_cell(schema[c], sequence_map_col, plan[idx].old[c],
                                   plan[idx].new[c], c \in plan[idx].skip,
                                   has_sequence_col /\ "seq" \notin plan[idx].skip,
                                   plan[idx].old["del"] # 0)]]

\* ------------------------------------------ the reconstruction's specification
MaxPlanRows == 2

\* The rows of the example: the old row (k, a, b) and the new row (k, y, z),
\* y being what the flush phase filled c1 with; each with a delete sign and a
\* sequence value.
OldRows ==
    {[c \in {"k"} \cup ValueColumns |->
         IF c = "k" THEN 1 ELSE IF c = "c1" THEN ValueA ELSE IF c = "c2" THEN ValueB
         ELSE IF c = "del" THEN d ELSE s] : <<d, s>> \in {0, 1} \X RowSeqs}

NewRows ==
    {[c \in {"k"} \cup ValueColumns |->
         IF c = "k" THEN 1 ELSE IF c = "c1" THEN ValueY ELSE IF c = "c2" THEN ValueZ
         ELSE IF c = "del" THEN d ELSE s] : <<d, s>> \in {0, 1} \X RowSeqs}

\* The entries of the read plans of a fixed partial update: when the load
\* writes the sequence column, a row it lost to is no entry (the new row is
\* deleted instead).
FixedPlanRows(update_cids) ==
    {[old |-> o, new |-> n, skip |-> {}] :
        <<o, n>> \in {x \in OldRows \X NewRows :
                        (has_sequence_col /\ "seq" \in update_cids)
                            => x[2]["seq"] >= x[1]["seq"]}}

\* The entries of a flexible partial update: the row specifies c2 and may
\* leave out c1 and the sequence column; with c1 as the sequence-map column
\* it leaves out both or none. overwritten: the lookup met a row with a
\* larger sequence value.
FlexiblePlanRows(sequence_map_col) ==
    {[old |-> x[1], new |-> x[2], skip |-> x[3], overwritten |-> x[4]] :
        x \in {y \in OldRows \X NewRows \X (SUBSET ({"c1", "seq"} \cap ValueColumns))
                     \X BOOLEAN :
                 /\ sequence_map_col = "c1" => ("c1" \in y[3] <=> "seq" \in y[3])
                 /\ y[4] => (has_sequence_col /\ y[1]["seq"] > y[2]["seq"])
                 /\ (has_sequence_col /\ ~y[4] /\ "seq" \notin y[3])
                        => y[2]["seq"] >= y[1]["seq"]}}

InitRebuild ==
    /\ tablet_state = "RUNNING"
    /\ has_sequence_col \in BOOLEAN
    /\ enable_mow_check = FALSE
    /\ io_errors = TRUE
    /\ dcheck = "none"
    /\ converted = {}
    /\ rowset_update_lock = 0
    /\ scheduler = InitScheduler(Min(HighWaterMarks), FALSE)
    /\ compaction = NoCompaction
    /\ calc = NoCalc
    /\ calc_token = NoToken
    /\ s3_writer = NoWriterObject
    /\ state_calls = NoCalls
    /\ pk_scan = NoScan
    /\ rs_version_map = {}
    /\ rowsets = [r \in Txns |-> NoRowset]
    /\ tablet_bitmap = {}
    /\ txn = [t \in Txns |-> InitTxn]
    /\ \E schema \in Schemas :
          \/ \E update_cids \in {{"c2"} \cup s : s \in SUBSET ({"del", "seq"} \cap ValueColumns)},
                n \in 1 .. MaxPlanRows :
                /\ ~schema["c1"].is_auto_increment
                /\ \E plan \in [1 .. n -> FixedPlanRows(update_cids)] :
                      rebuild = [pc |-> "ready", mode |-> "FIXED", schema |-> schema,
                                 update_cids |-> update_cids, sequence_map_col |-> "none",
                                 plan |-> plan, block |-> << >>]
          \/ \E sequence_map_col \in {"none", "c1"} :
                /\ sequence_map_col = "c1" => has_sequence_col
                /\ \E plan \in [1 .. 1 -> FlexiblePlanRows(sequence_map_col)] :
                      rebuild = [pc |-> "ready", mode |-> "FLEXIBLE", schema |-> schema,
                                 update_cids |-> {}, sequence_map_col |-> sequence_map_col,
                                 plan |-> plan, block |-> << >>]

\* generate_new_block_for_partial_update on the read plans of a fixed
\* partial update.
RebuildFixed ==
    /\ rebuild.pc = "ready"
    /\ rebuild.mode = "FIXED"
    /\ rebuild' = [rebuild EXCEPT
          !.pc = "built",
          !.block = generate_new_block_for_partial_update(rebuild.schema,
                                                          rebuild.update_cids, rebuild.plan)]
    /\ UNCHANGED <<tablet_vars, scheduler, compaction, calc, calc_token, s3_writer,
                   state_calls, pk_scan>>

\* generate_new_block_for_flexible_partial_update on the read plans of a
\* flexible partial update.
RebuildFlexible ==
    /\ rebuild.pc = "ready"
    /\ rebuild.mode = "FLEXIBLE"
    /\ rebuild' = [rebuild EXCEPT
          !.pc = "built",
          !.block = generate_new_block_for_flexible_partial_update(
                        rebuild.schema, rebuild.sequence_map_col,
                        {idx - 1 : idx \in {i \in 1 .. Len(rebuild.plan) :
                                               rebuild.plan[i].overwritten}},
                        rebuild.plan)]
    /\ UNCHANGED <<tablet_vars, scheduler, compaction, calc, calc_token, s3_writer,
                   state_calls, pk_scan>>

NextRebuild ==
    \/ RebuildFixed
    \/ RebuildFlexible

SpecRebuild == InitRebuild /\ [][NextRebuild]_vars

\* ------------------------------------ the publish phase after a compaction
\* The loads of this specification: full-row loads and, last, a partial
\* update; the id of the rowset a compaction of a rowset produces.
PublishTxns == 1 .. NumTxns + 1
PartialTxn == NumTxns + 1
CompactedId(r) == r + NumTxns + 1

\* The rows of the rowset a reader at the rowset's version sees, by segment
\* and position.
visible_rows(r) ==
    {<<j, i>> \in (1 .. num_segments(r)) \X (1 .. NumKeys) :
        /\ i <= Len(rowsets[r].segs[j])
        /\ ~contains_agg_without_cache(tablet_bitmap, r, j - 1, rowsets[r].version, i - 1)}

\* The merge of those rows into one segment in key order, and the place of
\* each in it.
RECURSIVE merged_rows(_, _)
merged_rows(r, rows) ==
    IF rows = {} THEN << >>
    ELSE LET a == CHOOSE x \in rows :
                    \A y \in rows : rowsets[r].segs[x[1]][x[2]].key
                                        <= rowsets[r].segs[y[1]][y[2]].key
         IN  <<a>> \o merged_rows(r, rows \ {a})

\* A compaction replaces a visible rowset by its output: the rows visible at
\* its version in one segment, the marks later versions put on them carried
\* over to their new places. The input leaves the tablet; its entries stay
\* in the tablet's bitmap until they are collected. A load being written
\* reads the rowsets it captured when it opened: its flush is one step with
\* its commit, which a compaction therefore does not come between.
Compact(r) ==
    /\ dcheck # "aborted"
    /\ tablet_state = "RUNNING"
    /\ try_lock(0)
    /\ \A t \in DOMAIN txn : txn[t].pc # "open"
    /\ r \in rs_version_map
    /\ ~rowsets[r].by_compaction
    /\ LET id == CompactedId(r)
           order == merged_rows(r, visible_rows(r))
           dst(a) == CHOOSE p \in 1 .. Len(order) : order[p] = a
           out == [version |-> rowsets[r].version,
                   segs |-> IF order = << >> THEN << >>
                            ELSE <<[p \in 1 .. Len(order) |->
                                       rowsets[r].segs[order[p][1]][order[p][2]]]>>,
                   by_compaction |-> TRUE]
       IN  /\ rowsets' = [x \in DOMAIN rowsets \cup {id} |->
                             IF x = id THEN out ELSE rowsets[x]]
           /\ rs_version_map' = (rs_version_map \ {r}) \cup {id}
           /\ tablet_bitmap' = tablet_bitmap \cup
                 {<<id, 0, m[3], dst(<<m[2] + 1, m[4] + 1>>) - 1>> :
                     m \in {x \in tablet_bitmap :
                              /\ x[1] = r
                              /\ <<x[2] + 1, x[4] + 1>> \in visible_rows(r)}}
    /\ UNCHANGED <<unit_vars, scheduler, compaction, tablet_state, converted, txn,
                   rowset_update_lock, enable_mow_check, has_sequence_col, dcheck, io_errors>>

\* A running tablet, no I/O step fails.
InitPublish ==
    /\ tablet_state = "RUNNING"
    /\ rs_version_map = {}
    /\ rowsets = [r \in PublishTxns |-> NoRowset]
    /\ tablet_bitmap = {}
    /\ converted = {}
    /\ txn = [t \in PublishTxns |-> InitTxn]
    /\ rowset_update_lock = 0
    /\ enable_mow_check = FALSE
    /\ has_sequence_col \in BOOLEAN
    /\ dcheck = "none"
    /\ io_errors = FALSE
    /\ scheduler = InitScheduler(Min(HighWaterMarks), FALSE)
    /\ compaction = NoCompaction
    /\ NoUnits

NextPublish ==
    \/ \E t \in PublishTxns \ {PartialTxn} : Write(t)
    \/ WritePartial(PartialTxn)
    \/ \E t \in PublishTxns : Commit(t)
    \/ \E t \in PublishTxns : Align(t)
    \/ \E t \in PublishTxns : Save(t)
    \/ \E t \in PublishTxns : PublishEnd(t)
    \/ \E r \in PublishTxns : Compact(r)

SpecPublish == InitPublish /\ [][NextPublish]_vars

\* ------------------------------------------------- CalcDeleteBitmapToken
\* The segments of one rowset fanned out onto a token of the calculation
\* executor: the caller submits one task per segment, the workers run the
\* tasks in any order and in parallel with the submissions, the caller
\* joins them with wait(). A task returns what calc_segment_delete_bitmap
\* returns for its segment.
MaxTokenSegs == 3
TaskStatuses == {"OK"} \cup LookupFaults

\* A join that lets the publish go on whatever it returned (a faulty variant).
publish_after_any_wait(st) == "save"

\* RETURN_IF_ERROR(token->wait()): the publish goes on to the correctness
\* check and the save only with OK.
publish_after_wait(st) == IF st = "OK" THEN "save" ELSE "returned_error"

\* The token keeps the first error a task returns.
first_error(status, st) == IF status = "OK" THEN st ELSE status

InitToken ==
    /\ tablet_state = "RUNNING"
    /\ has_sequence_col = FALSE
    /\ enable_mow_check = FALSE
    /\ io_errors = TRUE
    /\ dcheck = "none"
    /\ converted = {}
    /\ rowset_update_lock = 0
    /\ scheduler = InitScheduler(Min(HighWaterMarks), FALSE)
    /\ compaction = NoCompaction
    /\ calc = NoCalc
    /\ rebuild = NoRebuild
    /\ s3_writer = NoWriterObject
    /\ state_calls = NoCalls
    /\ pk_scan = NoScan
    /\ rs_version_map = {}
    /\ rowsets = [r \in Txns |-> NoRowset]
    /\ tablet_bitmap = {}
    /\ txn = [t \in Txns |-> InitTxn]
    /\ \E n \in 2 .. MaxTokenSegs :
       \E outcome \in [0 .. n - 1 -> TaskStatuses] :
          calc_token = [pc |-> "submitting",     \* where the publish task is
                        segments |-> n,
                        outcome |-> outcome,     \* what each segment's task returns
                        submitted |-> 0,         \* the tasks handed to the token
                        finished |-> << >>,      \* the tasks completed, in order
                        status |-> "OK",         \* the token's status
                        submit_st |-> "OK",      \* what the last submit returned
                        wait_st |-> "none"]      \* what wait() returned

\* calc_delete_bitmap, one round of the loop over the segments: the segment
\* is submitted; a submission the token refuses ends the loop and the
\* publish without a join.
TokenSubmit ==
    /\ calc_token.pc = "submitting"
    /\ calc_token.submitted < calc_token.segments
    /\ \E st \in {"OK", "SUBMIT_ERROR"} :
          calc_token' =
              IF st = "OK"
              THEN [calc_token EXCEPT !.submitted = @ + 1]
              ELSE [calc_token EXCEPT !.submit_st = st, !.pc = "returned_error"]
    /\ UNCHANGED <<tablet_vars, scheduler, compaction, calc, rebuild, s3_writer,
                   state_calls, pk_scan>>

\* Every segment was submitted: calc_delete_bitmap returns OK and the caller
\* calls wait().
TokenCallWait ==
    /\ calc_token.pc = "submitting"
    /\ calc_token.submitted = calc_token.segments
    /\ calc_token' = [calc_token EXCEPT !.pc = "waiting"]
    /\ UNCHANGED <<tablet_vars, scheduler, compaction, calc, rebuild, s3_writer,
                   state_calls, pk_scan>>

\* A worker runs a submitted task to its end, whatever the tasks before it
\* returned and wherever the caller is.
TokenRun(seg) ==
    /\ calc_token.pc # "none"
    /\ seg < calc_token.submitted
    /\ seg \notin SeqToSet(calc_token.finished)
    /\ calc_token' = [calc_token EXCEPT
                         !.finished = Append(@, seg),
                         !.status = first_error(@, calc_token.outcome[seg])]
    /\ UNCHANGED <<tablet_vars, scheduler, compaction, calc, rebuild, s3_writer,
                   state_calls, pk_scan>>

\* wait() returns once no submitted task is left, with the token's status.
TokenWait ==
    /\ calc_token.pc = "waiting"
    /\ Len(calc_token.finished) = calc_token.submitted
    /\ calc_token' = [calc_token EXCEPT !.wait_st = calc_token.status,
                                        !.pc = publish_after_wait(calc_token.status)]
    /\ UNCHANGED <<tablet_vars, scheduler, compaction, calc, rebuild, s3_writer,
                   state_calls, pk_scan>>

NextToken ==
    \/ TokenSubmit
    \/ TokenCallWait
    \/ \E seg \in 0 .. MaxTokenSegs - 1 : TokenRun(seg)
    \/ TokenWait

SpecToken == InitToken /\ [][NextToken]_vars

\* ------------------------------------------------------------ S3FileWriter
\* The writer's countdown event and the asynchronous part uploads counted
\* on it. MaxParts bounds the buffers a writer submits, MaxIntervals the
\* log intervals a join is followed through.
MaxParts == 3
MaxIntervals == 2
UploadStatuses == {"OK", "IO_ERROR"}

\* A join that gives up at the first expired interval (a faulty variant of
\* the loop condition below).
wait_ends_at_timeout(rc) == FALSE

\* while (0 != _countdown_event.timed_wait(current_time)): the loop goes on
\* as long as the wait returns anything but 0.
wait_goes_on(rc) == rc # 0

\* countdown_event::timed_wait: 0 once the count is zero, ETIMEDOUT when the
\* time is due with a count left.
timed_wait(count) == IF count = 0 THEN 0 ELSE 110

InitWriter ==
    /\ tablet_state = "RUNNING"
    /\ has_sequence_col = FALSE
    /\ enable_mow_check = FALSE
    /\ io_errors = TRUE
    /\ dcheck = "none"
    /\ converted = {}
    /\ rowset_update_lock = 0
    /\ scheduler = InitScheduler(Min(HighWaterMarks), FALSE)
    /\ compaction = NoCompaction
    /\ calc = NoCalc
    /\ rebuild = NoRebuild
    /\ calc_token = NoToken
    /\ state_calls = NoCalls
    /\ pk_scan = NoScan
    /\ rs_version_map = {}
    /\ rowsets = [r \in Txns |-> NoRowset]
    /\ tablet_bitmap = {}
    /\ txn = [t \in Txns |-> InitTxn]
    /\ s3_writer = [pc |-> "opened",
                    _countdown_event |-> 0,  \* the event's count
                    tasks |-> {},            \* the parts submitted and not yet signalled
                    unmatched |-> 0,         \* counts added for a refused submission
                                             \* that nothing signals
                    _cur_part_num |-> 1,
                    _failed |-> FALSE,
                    _st |-> "OK",
                    deadline |-> 0,          \* current_time, in log intervals
                    logged |-> 0,            \* LOG(WARNING) lines of the join
                    joins |-> 0]             \* joins that returned

\* appendv, a buffer filled (or _close_impl, the remaining buffer): the
\* count is added, then the buffer submitted. A submission that is refused
\* returns the error to the caller; what becomes of the count added for it
\* is FileBuffer's business: it is signalled like a task's, or never.
SubmitPart ==
    /\ s3_writer.pc = "opened"
    /\ ~s3_writer._failed
    /\ s3_writer._cur_part_num <= MaxParts
    /\ \E submit \in {"OK", "REFUSED_SIGNALLED", "REFUSED"} :
          s3_writer' =
              [s3_writer EXCEPT
                  !._cur_part_num = @ + 1,
                  !._countdown_event = @ + 1,
                  !.tasks = IF submit = "REFUSED" THEN @
                            ELSE @ \cup {s3_writer._cur_part_num},
                  !.unmatched = IF submit = "REFUSED" THEN @ + 1 ELSE @,
                  !.pc = IF submit = "OK" THEN "opened" ELSE "append_failed"]
    /\ UNCHANGED <<tablet_vars, scheduler, compaction, calc, rebuild, calc_token,
                   state_calls, pk_scan>>

\* _complete_part_task_callback: a failed upload is recorded, the event is
\* signalled.
CompletePart(part) ==
    /\ part \in s3_writer.tasks
    /\ \E s \in UploadStatuses :
          s3_writer' =
              [s3_writer EXCEPT
                  !._failed = @ \/ s # "OK",
                  !._st = IF s # "OK" THEN s ELSE @,
                  !.tasks = @ \ {part},
                  !._countdown_event = @ - 1]
    /\ UNCHANGED <<tablet_vars, scheduler, compaction, calc, rebuild, calc_token,
                   state_calls, pk_scan>>

\* _wait_until_finish is entered (from _complete or from the destructor):
\* the first deadline is one interval away.
WaitUntilFinish ==
    /\ s3_writer.pc \in {"opened", "append_failed", "joined"}
    /\ s3_writer.joins < 2
    /\ s3_writer' = [s3_writer EXCEPT !.pc = "waiting", !.deadline = 1, !.logged = 0]
    /\ UNCHANGED <<tablet_vars, scheduler, compaction, calc, rebuild, calc_token,
                   state_calls, pk_scan>>

\* One round of the loop: timed_wait returns, and the loop either ends or
\* moves the deadline by one interval and logs.
TimedWait ==
    /\ s3_writer.pc = "waiting"
    /\ s3_writer.logged < MaxIntervals \/ s3_writer._countdown_event = 0
    /\ s3_writer' =
          IF wait_goes_on(timed_wait(s3_writer._countdown_event))
          THEN [s3_writer EXCEPT !.deadline = @ + 1, !.logged = @ + 1]
          ELSE [s3_writer EXCEPT !.pc = "joined", !.joins = @ + 1]
    /\ UNCHANGED <<tablet_vars, scheduler, compaction, calc, rebuild, calc_token,
                   state_calls, pk_scan>>

NextWriter ==
    \/ SubmitPart
    \/ \E part \in 1 .. MaxParts : CompletePart(part)
    \/ WaitUntilFinish
    \/ TimedWait

SpecWriter == InitWriter /\ [][NextWriter]_vars

\* The upload pool runs every task it was handed and the joining thread is
\* scheduled: a part that can complete does, and a wait that can return does.
SpecWriterLive ==
    /\ SpecWriter
    /\ \A part \in 1 .. MaxParts : WF_vars(CompletePart(part))
    /\ WF_vars(TimedWait /\ s3_writer'.pc = "joined")

\* ------------------------------------------------------- S3FileWriter::close
\* The close calls a behaviour makes and the uploads outstanding when the
\* first one comes.
MaxCloseCalls == 3
MaxPending == 2

\* A close that refuses a closed writer only (a faulty variant of the test
\* below).
rejects_closed_only(state, non_block) == state = "CLOSED"

\* lines 1293-1301: close() on a closed writer, and a non-blocking close()
\* on a writer that is closing asynchronously, return InternalError.
rejects_close(state, non_block) ==
    state = "CLOSED" \/ (state = "ASYNC_CLOSING" /\ non_block)

\* _close_impl: an error before _complete is returned at once; otherwise
\* _complete joins the uploads and returns _st after a failed upload, the
\* outcome of the completion otherwise.
close_impl_status(early, failed, st, complete) ==
    IF early # "OK" THEN early ELSE IF failed THEN st ELSE complete

InitClose ==
    /\ tablet_state = "RUNNING"
    /\ has_sequence_col = FALSE
    /\ enable_mow_check = FALSE
    /\ io_errors = TRUE
    /\ dcheck = "none"
    /\ converted = {}
    /\ rowset_update_lock = 0
    /\ scheduler = InitScheduler(Min(HighWaterMarks), FALSE)
    /\ compaction = NoCompaction
    /\ calc = NoCalc
    /\ rebuild = NoRebuild
    /\ calc_token = NoToken
    /\ state_calls = NoCalls
    /\ pk_scan = NoScan
    /\ rs_version_map = {}
    /\ rowsets = [r \in Txns |-> NoRowset]
    /\ tablet_bitmap = {}
    /\ txn = [t \in Txns |-> InitTxn]
    /\ \E pending \in 0 .. MaxPending :
          s3_writer = [_state |-> "OPENED",
                       _async_close_pack |-> "null", \* null, or the promise: unset or its value
                       task |-> "none",              \* the async close task in the pool
                       caller |-> "idle",            \* where the closing thread stands
                       early |-> "OK",               \* what _close_impl meets before _complete
                       _countdown_event |-> pending,
                       _failed |-> FALSE,
                       _st |-> "OK",
                       async_st |-> "none",          \* what the async _close_impl returned
                       calls |-> << >>]              \* the close calls that have returned

\* The call returns: it is logged with the state it found and the state it
\* leaves.
CloseReturned(w, non_block, st, state) ==
    [w EXCEPT !._state = state,
              !.caller = "idle",
              !.calls = Append(@, [non_block |-> non_block, from |-> s3_writer._state,
                                   st |-> st, left |-> state])]

\* close(non_block) up to its first return or wait. A refused submission
\* returns the pool's error; the task is then never run.
Close(non_block) ==
    /\ s3_writer.caller = "idle"
    /\ Len(s3_writer.calls) < MaxCloseCalls
    /\ IF rejects_close(s3_writer._state, non_block)
       THEN s3_writer' = CloseReturned(s3_writer, non_block, "INTERNAL_ERROR", s3_writer._state)
       ELSE IF s3_writer._state = "ASYNC_CLOSING" /\ ~non_block
       THEN s3_writer' = [s3_writer EXCEPT !.caller = "at_future_get"]
       ELSE IF non_block
       THEN \E submit \in {"OK", "SERVICE_UNAVAILABLE"} :
               s3_writer' = CloseReturned([s3_writer EXCEPT
                                         !._async_close_pack = "unset",
                                         !.async_st = "none",
                                         !.task = IF submit = "OK" THEN "queued"
                                                  ELSE "refused"],
                                     TRUE, submit, "ASYNC_CLOSING")
       ELSE \E early \in UploadStatuses :
               s3_writer' = [s3_writer EXCEPT !.caller = "in_close_impl", !.early = early]
    /\ UNCHANGED <<tablet_vars, scheduler, compaction, calc, rebuild, calc_token,
                   state_calls, pk_scan>>

\* An outstanding upload ends: _complete_part_task_callback.
UploadDone ==
    /\ s3_writer._countdown_event > 0
    /\ \E s \in UploadStatuses :
          s3_writer' = [s3_writer EXCEPT !._countdown_event = @ - 1,
                                         !._failed = @ \/ s # "OK",
                                         !._st = IF s # "OK" THEN s ELSE @]
    /\ UNCHANGED <<tablet_vars, scheduler, compaction, calc, rebuild, calc_token,
                   state_calls, pk_scan>>

\* A pool thread takes the async close task and enters _close_impl.
AsyncCloseRun ==
    /\ s3_writer.task = "queued"
    /\ \E early \in UploadStatuses :
          s3_writer' = [s3_writer EXCEPT !.task = "running", !.early = early]
    /\ UNCHANGED <<tablet_vars, scheduler, compaction, calc, rebuild, calc_token,
                   state_calls, pk_scan>>

\* _close_impl returns in the pool thread: promise.set_value.
AsyncCloseSetValue ==
    /\ s3_writer.task = "running"
    /\ s3_writer.early # "OK" \/ s3_writer._countdown_event = 0
    /\ \E complete \in UploadStatuses :
          LET Set(v) == s3_writer' = [s3_writer EXCEPT !.task = "done",
                                                       !._async_close_pack = v,
                                                       !.async_st = v]
          IN  Set(close_impl_status(s3_writer.early, s3_writer._failed, s3_writer._st,
                                    complete))
    /\ UNCHANGED <<tablet_vars, scheduler, compaction, calc, rebuild, calc_token,
                   state_calls, pk_scan>>

\* future.get() returns in the blocking close once the promise is set.
CloseFutureGet ==
    /\ s3_writer.caller = "at_future_get"
    /\ s3_writer._async_close_pack \in UploadStatuses
    /\ s3_writer' = CloseReturned([s3_writer EXCEPT !._st = s3_writer._async_close_pack,
                                               !._async_close_pack = "null"],
                             FALSE, s3_writer._async_close_pack, "CLOSED")
    /\ UNCHANGED <<tablet_vars, scheduler, compaction, calc, rebuild, calc_token,
                   state_calls, pk_scan>>

\* _close_impl returns in the thread of a blocking close of an open writer.
CloseImplReturn ==
    /\ s3_writer.caller = "in_close_impl"
    /\ s3_writer.early # "OK" \/ s3_writer._countdown_event = 0
    /\ \E complete \in UploadStatuses :
          LET Closed(v) == s3_writer' = CloseReturned([s3_writer EXCEPT !._st = v], FALSE, v,
                                                 "CLOSED")
          IN  Closed(close_impl_status(s3_writer.early, s3_writer._failed, s3_writer._st,
                                       complete))
    /\ UNCHANGED <<tablet_vars, scheduler, compaction, calc, rebuild, calc_token,
                   state_calls, pk_scan>>

NextClose ==
    \/ \E non_block \in BOOLEAN : Close(non_block)
    \/ UploadDone
    \/ AsyncCloseRun
    \/ AsyncCloseSetValue
    \/ CloseFutureGet
    \/ CloseImplReturn

SpecClose == InitClose /\ [][NextClose]_vars

\* Every upload ends, the pool runs the tasks it accepted, and a thread
\* whose wait can return is scheduled.
SpecCloseLive ==
    /\ SpecClose
    /\ WF_vars(UploadDone)
    /\ WF_vars(AsyncCloseRun)
    /\ WF_vars(AsyncCloseSetValue)
    /\ WF_vars(CloseFutureGet)
    /\ WF_vars(CloseImplReturn)

\* ------------------------------------------- the compaction producer thread
\* The budgets the producer is started with, and the producer's positions:
\* not started, in its round, at the stop latch between two rounds, exited.
StartBudgets == {1, 4, 64}

\* A latch that never lets the producer go (a faulty variant).
latch_never_stops(count) == FALSE

\* _stop_background_threads_latch.wait_for(interval): true once the latch
\* has been counted down to zero.
latch_wait_for(count) == count = 0

InitProducer ==
    /\ tablet_state = "RUNNING"
    /\ rs_version_map = {}
    /\ rowsets = [r \in Txns |-> NoRowset]
    /\ tablet_bitmap = {}
    /\ converted = {}
    /\ txn = [t \in Txns |-> InitTxn]
    /\ rowset_update_lock = 0
    /\ enable_mow_check = FALSE
    /\ has_sequence_col = FALSE
    /\ dcheck = "none"
    /\ io_errors = FALSE
    /\ compaction = NoCompaction
    /\ NoUnits
    /\ \E high_water \in HighWaterMarks, disabled \in BOOLEAN, budget \in StartBudgets,
          queued \in {0, 1} :
           scheduler = [compaction_num_per_round |-> budget,
                        total_queued_tasks |-> queued,
                        executing |-> 0,
                        high_water |-> high_water,
                        disable_auto_compaction |-> disabled,
                        st |-> "NONE",
                        tuned_from |-> 0,
                        tuned_at |-> -1,
                        producer |-> "not_started",
                        _stop_background_threads_latch |-> 1]

\* Thread::create(... _compaction_tasks_producer_callback ...)
ProducerStart ==
    /\ scheduler.producer = "not_started"
    /\ scheduler' = [scheduler EXCEPT !.producer = "in_round"]
    /\ UNCHANGED <<unit_vars, tablet_vars, compaction>>

\* _stop_background_threads_latch.count_down()
CountDown ==
    /\ scheduler._stop_background_threads_latch > 0
    /\ scheduler' = [scheduler EXCEPT !._stop_background_threads_latch = @ - 1]
    /\ UNCHANGED <<unit_vars, tablet_vars, compaction>>

\* The body of the producer's loop: one round, then on to the latch.
ProducerLoopRound ==
    /\ scheduler.producer = "in_round"
    /\ \E eligible \in 0 .. MaxQueued - scheduler.total_queued_tasks :
           scheduler' = [producer_round(scheduler, eligible) EXCEPT !.producer = "at_latch"]
    /\ UNCHANGED <<unit_vars, tablet_vars, compaction>>

\* The loop's condition: the wait on the latch ends the loop when the latch
\* is down, and lets the next round start when the interval has passed.
ProducerCheckLatch ==
    /\ scheduler.producer = "at_latch"
    /\ scheduler' = [scheduler EXCEPT !.producer =
                        IF latch_wait_for(scheduler._stop_background_threads_latch)
                        THEN "exited" ELSE "in_round"]
    /\ UNCHANGED <<unit_vars, tablet_vars, compaction>>

NextProducer ==
    \/ ProducerStart
    \/ CountDown
    \/ ProducerLoopRound
    \/ ProducerCheckLatch
    \/ ExecuteCompaction
    \/ FinishCompaction

SpecProducer == InitProducer /\ [][NextProducer]_vars

\* The producer's thread is scheduled: a round that can run does, and the
\* wait on the latch returns.
SpecProducerLive ==
    /\ SpecProducer
    /\ WF_vars(ProducerLoopRound)
    /\ WF_vars(ProducerCheckLatch)

\* --------------------------------------------- set_tablet_state's specification
\* The calls a behaviour makes, and the states of a tablet.
MaxStateCalls == 4
TabletStates == {"RUNNING", "NOTREADY", "SHUTDOWN"}

InitState ==
    /\ tablet_state \in TabletStates
    /\ has_sequence_col = FALSE
    /\ enable_mow_check = FALSE
    /\ io_errors = FALSE
    /\ dcheck = "none"
    /\ converted = {}
    /\ rowset_update_lock = 0
    /\ scheduler = InitScheduler(Min(HighWaterMarks), FALSE)
    /\ compaction = NoCompaction
    /\ rs_version_map = {}
    /\ rowsets = [r \in Txns |-> NoRowset]
    /\ tablet_bitmap = {}
    /\ txn = [t \in Txns |-> InitTxn]
    /\ NoUnits

\* A caller asks for a state: the call, its status and the state it leaves
\* are logged.
SetTabletState(state) ==
    /\ Len(state_calls) < MaxStateCalls
    /\ LET Returned(r) ==
            /\ tablet_state' = r.state
            /\ state_calls' = Append(state_calls,
                                     [from |-> tablet_state, state |-> state,
                                      st |-> r.st, left |-> r.state])
       IN  Returned(set_tablet_state(state))
    /\ UNCHANGED <<rs_version_map, rowsets, tablet_bitmap, converted, txn, rowset_update_lock,
                   enable_mow_check, has_sequence_col, dcheck, io_errors, scheduler,
                   compaction, calc, rebuild, calc_token, s3_writer, pk_scan>>

NextState == \E state \in TabletStates : SetTabletState(state)

SpecState == InitState /\ [][NextState]_vars

\* ------------------------------------- the scan of the primary-key index
\* The batch of the scan (1024 entries in the source, scaled down) and the
\* keys an index can hold: ascending and distinct.
batch_size == 3
MaxIndexKeys == 7

IndexKeys == {KeysAscending(S) : S \in SUBSET (1 .. MaxIndexKeys)}

\* The key before every key: the empty last_key the scan starts with.
EmptyKey == 0

\* iter->seek_at_or_after(&last_key_slice, &exact_match) followed by
\* get_current_ordinal(): the ordinal of the first entry whose key is not
\* below the key, the end of the index when there is none.
seek_at_or_after(index, key) ==
    IF \E p \in 1 .. Len(index) : index[p] >= key
    THEN Min({p \in 1 .. Len(index) : index[p] >= key}) - 1
    ELSE Len(index)

\* iter->next_batch(&num_read, index_column): the entries from the ordinal
\* on, as many as asked for and the index still holds.
next_batch(index, ordinal, num_to_read) ==
    SubSeq(index, ordinal + 1, Min({ordinal + num_to_read, Len(index)}))

\* A batch that holds no key back (a faulty variant of the test below).
nothing_held_back(num_read, remaining) == num_read

\* lines 673-676: a full batch that is not the last one holds its last key
\* back for the next batch.
hold_back_last_key(num_read, remaining) ==
    IF num_read = batch_size /\ num_read # remaining THEN num_read - 1 ELSE num_read

InitScan ==
    /\ tablet_state = "RUNNING"
    /\ has_sequence_col = FALSE
    /\ enable_mow_check = FALSE
    /\ io_errors = FALSE
    /\ dcheck = "none"
    /\ converted = {}
    /\ rowset_update_lock = 0
    /\ scheduler = InitScheduler(Min(HighWaterMarks), FALSE)
    /\ compaction = NoCompaction
    /\ rs_version_map = {}
    /\ rowsets = [r \in Txns |-> NoRowset]
    /\ tablet_bitmap = {}
    /\ txn = [t \in Txns |-> InitTxn]
    /\ calc = NoCalc
    /\ rebuild = NoRebuild
    /\ calc_token = NoToken
    /\ s3_writer = NoWriterObject
    /\ state_calls = NoCalls
    /\ \E index \in IndexKeys :
          pk_scan = [pc |-> "loop", index |-> index, total |-> Len(index), row_id |-> 0,
                     remaining |-> Len(index), last_key |-> EmptyKey,
                     seek_key |-> EmptyKey, current_ordinal |-> 0, batch |-> << >>,
                     num_read |-> 0, i |-> 0, batches |-> 0, examined |-> << >>]

\* The head of the while loop with remaining > 0, up to the for loop: a new
\* iterator seeks the last key, reads the batch, remembers its last key and
\* holds it back (lines 652-676). The two DCHECKs are those of lines 663 and
\* 669.
ScanNextBatch ==
    /\ pk_scan.pc = "loop"
    /\ pk_scan.remaining > 0
    /\ LET num_to_read == Min({batch_size, pk_scan.remaining})
           Read(ordinal, batch) ==
               IF pk_scan.total # pk_scan.remaining + ordinal \/ Len(batch) # num_to_read
               THEN pk_scan' = [pk_scan EXCEPT !.pc = "dcheck_failed",
                                               !.seek_key = pk_scan.last_key,
                                               !.current_ordinal = ordinal,
                                               !.batch = batch]
               ELSE pk_scan' = [pk_scan EXCEPT
                       !.pc = "batch",
                       !.seek_key = pk_scan.last_key,
                       !.current_ordinal = ordinal,
                       !.batch = batch,
                       !.last_key = batch[Len(batch)],
                       !.num_read = hold_back_last_key(Len(batch), pk_scan.remaining),
                       !.i = 0,
                       !.batches = @ + 1]
           Sought(ordinal) == Read(ordinal, next_batch(pk_scan.index, ordinal, num_to_read))
       IN  Sought(seek_at_or_after(pk_scan.index, pk_scan.last_key))
    /\ UNCHANGED <<tablet_vars, scheduler, compaction, calc, rebuild, calc_token, s3_writer,
                   state_calls>>

\* One round of the for loop: the entry i of the batch is examined as row
\* row_id of the segment.
ScanRow ==
    /\ pk_scan.pc = "batch"
    /\ pk_scan.i < pk_scan.num_read
    /\ pk_scan' = [pk_scan EXCEPT
          !.examined = Append(@, [key |-> pk_scan.batch[pk_scan.i + 1],
                                  row_id |-> pk_scan.row_id]),
          !.i = @ + 1,
          !.row_id = @ + 1]
    /\ UNCHANGED <<tablet_vars, scheduler, compaction, calc, rebuild, calc_token, s3_writer,
                   state_calls>>

\* The for loop is left: remaining -= num_read.
ScanBatchEnd ==
    /\ pk_scan.pc = "batch"
    /\ pk_scan.i >= pk_scan.num_read
    /\ pk_scan' = [pk_scan EXCEPT !.pc = "loop", !.remaining = @ - pk_scan.num_read]
    /\ UNCHANGED <<tablet_vars, scheduler, compaction, calc, rebuild, calc_token, s3_writer,
                   state_calls>>

\* The while loop is left.
ScanDone ==
    /\ pk_scan.pc = "loop"
    /\ ~(pk_scan.remaining > 0)
    /\ pk_scan' = [pk_scan EXCEPT !.pc = "done"]
    /\ UNCHANGED <<tablet_vars, scheduler, compaction, calc, rebuild, calc_token, s3_writer,
                   state_calls>>

NextScan ==
    \/ ScanNextBatch
    \/ ScanRow
    \/ ScanBatchEnd
    \/ ScanDone

SpecScan == InitScan /\ [][NextScan]_vars

\* The scan runs in one thread that is never suspended for good.
SpecScanLive == SpecScan /\ WF_vars(NextScan)

\* ================================================================ properties
Published(t) == txn[t].pc = "published"

\* The transaction's rowset holds a row with the key.
Writes(t, key) ==
    \E j \in 1 .. num_segments(t) :
        \E i \in 1 .. Len(rowsets[t].segs[j]) : rowsets[t].segs[j][i].key = key

\* The rows of the visible rowsets holding the key that a reader at the
\* version does not find marked in the tablet's bitmap.
LiveRows(key, version) ==
    {loc \in UNION {{<<rs, j - 1, i - 1>> :
                        <<j, i>> \in {x \in (1 .. num_segments(rs)) \X (1 .. NumKeys) :
                                        x[2] <= Len(rowsets[rs].segs[x[1]])}} :
                    rs \in rs_version_map} :
        /\ RowAt(loc).key = key
        /\ ~contains_agg_without_cache(tablet_bitmap, loc[1], loc[2], version, loc[3])}

BothPublished(t1, t2, key) ==
    /\ t1 < t2
    /\ Published(t1) /\ Published(t2)
    /\ Writes(t1, key) /\ Writes(t2, key)

\* C1 (as stated): for every key written by two published transactions
\* T1 < T2, exactly one row holding the key is live at the latest version.
\* Refuted: a publish on a tablet under alter returns OK without computing
\* anything, so both rows stay live until the alter process converts them.
C1_AsStated ==
    \A t1 \in Txns, t2 \in Txns, key \in Keys :
        BothPublished(t1, t2, key) =>
            Cardinality(LiveRows(key, max_version_unlocked)) = 1

\* C1: on a tablet that is not under alter, for every key written by two
\* published transactions T1 < T2, exactly one row holding the key is live
\* at the latest version; every other row holding it is marked deleted.
C1_AtMostOneVisibleVersion ==
    \A t1 \in Txns, t2 \in Txns, key \in Keys :
        (tablet_state = "RUNNING" /\ BothPublished(t1, t2, key)) =>
            Cardinality(LiveRows(key, max_version_unlocked)) = 1

C1_Witness ==
    /\ tablet_state = "RUNNING"
    /\ BothPublished(1, 2, 1)
    /\ \E m \in tablet_bitmap : m[1] = 1 /\ m[3] = VersionOf(2)
    /\ Cardinality(LiveRows(1, max_version_unlocked)) = 1

\* The marks of a bitmap under the version they are finally kept at.
AtVersion(bm, version) ==
    {<<m[1], m[2], version, m[4]>> : m \in remove_sentinel_marks(bm)}

InProgress(t) == txn[t].pc \in {"aligned", "returned"}

C4_AsStated ==
    [][\A t \in Txns :
         (txn[t].pc \in {"committed", "aligned"} /\ txn'[t].pc = "returned"
          /\ txn'[t].status = "ERROR") => tablet_bitmap' = tablet_bitmap]_vars

\* C4: no step of update_delete_bitmap before the save changes the tablet's
\* bitmap, whether it fails or not; the save adds the whole working bitmap
\* of a calculation that succeeded, under the rowset's version, and nothing
\* else; and a call that fails leaves the tablet's bitmap unchanged unless
\* the failing step is the check of the bitmap cache, which follows the save.
C4_NoPartialProgress ==
    [][\A t \in Txns :
         /\ (txn[t].pc = "committed" /\ txn'[t] # txn[t]) =>
                tablet_bitmap' = tablet_bitmap
         /\ (txn[t].pc = "aligned" /\ txn'[t].pc = "returned") =>
                /\ txn[t].status = "OK"
                /\ tablet_bitmap' \in
                     {tablet_bitmap,
                      tablet_bitmap \cup AtVersion(txn[t].work, VersionOf(t))}
                /\ (txn'[t].status = "ERROR" /\ txn'[t].failed_at # "cache") =>
                     tablet_bitmap' = tablet_bitmap
                /\ txn'[t].status = "OK" =>
                     tablet_bitmap' = tablet_bitmap \cup AtVersion(txn[t].work, VersionOf(t))]_vars

\* A publish has failed at the save with marks to write, and none is in the
\* tablet's bitmap.
C4_Witness ==
    \E t \in Txns :
        /\ txn[t].pc = "returned"
        /\ txn[t].status = "ERROR"
        /\ txn[t].failed_at = "save"
        /\ AtVersion(txn[t].work, VersionOf(t)) # {}
        /\ tablet_bitmap \cap AtVersion(txn[t].work, VersionOf(t)) = {}

\* The states of a transaction's bitmap.
COMMITTED(t) == txn[t].pc = "committed" /\ ~txn[t].saved
ALIGNING(t)  == txn[t].pc = "aligned" /\ ~txn[t].saved
PERSISTED(t) == txn[t].saved

\* C5 (as stated, last part): a publish that returns a failure never leaves
\* the transaction's bitmap persisted. Refuted by the failing check of the
\* bitmap cache, which follows the save.
C5_AsStated ==
    \A t \in Txns :
        (txn[t].pc = "returned" /\ txn[t].status = "ERROR") => ~PERSISTED(t)

\* C5: a transaction's bitmap becomes ALIGNING only from COMMITTED, by a
\* publish-phase calculation that completed; it becomes PERSISTED only from
\* ALIGNING; it never leaves PERSISTED; a step that fails before or in the
\* save leaves it COMMITTED, and only the check that follows the save can
\* fail with the bitmap PERSISTED.
C5_BitmapStateMachine ==
    [][\A t \in Txns :
         /\ (~ALIGNING(t) /\ ALIGNING(t)') =>
                (COMMITTED(t) /\ txn'[t].status = "OK" /\ ~txn'[t].deferred)
         /\ (~PERSISTED(t) /\ PERSISTED(t)') =>
                (ALIGNING(t) /\ txn[t].status = "OK"
                 /\ (txn'[t].status = "OK" \/ txn'[t].failed_at = "cache"))
         /\ PERSISTED(t) => PERSISTED(t)'
         /\ (ALIGNING(t) /\ ~ALIGNING(t)' /\ ~PERSISTED(t)') =>
                (txn'[t].status = "ERROR" /\ txn'[t].failed_at \in {"flush", "save"})
         /\ (COMMITTED(t) /\ txn'[t].pc = "returned" /\ txn'[t].status = "ERROR") =>
                ~PERSISTED(t)']_vars

\* A transaction whose publish failed in the calculation and was retried
\* has its bitmap persisted.
C5_Witness ==
    \E t \in Txns :
        /\ PERSISTED(t)
        /\ txn[t].status = "OK"
        /\ txn[t].failed_in = "calc"
        /\ txn[t].pc = "returned"

\* The result of a publish-phase calculation of the transaction that starts
\* from the bitmap its commit left and in which no step fails.
FirstAttempt(t) ==
    update_delete_bitmap_calc(t, txn[t].commit_bitmap, num_segments(t), NoFail, FALSE)

\* C6: a publish retried after attempts that failed before the calculation
\* completed arrives at the save with the working bitmap, the transient
\* blocks and the transaction's bitmap that a first attempt with no failure
\* would arrive with from the bitmap the commit left: the failed attempts
\* left no mark that changes the result.
C6_RetryEqualsFirstAttempt ==
    \A t \in Txns :
        (txn[t].pc = "aligned" /\ txn[t].failed_in = "calc") =>
            LET Same(r) ==
                    /\ r.st = "OK"
                    /\ txn[t].work = r.work
                    /\ txn[t].blocks = r.blocks
                    /\ txn[t].delete_bitmap = r.txn_bitmap
            IN  Same(FirstAttempt(t))

\* A partial update whose publish failed in the calculation has been
\* retried: the retry marked rows and rebuilt rows for the transient rowset.
C6_Witness ==
    \E t \in Txns :
        /\ txn[t].pc = "aligned"
        /\ txn[t].failed_in = "calc"
        /\ txn[t].mode = "FIXED"
        /\ txn[t].blocks # << >>
        /\ remove_sentinel_marks(txn[t].work) # {}

\* The rowset writers a calculation over the transaction's rowset can get.
WritersOf(t) == {NoWriter, Writer(txn[t].mode, txn[t].seq_in)}

\* C7: calc_delete_bitmap run again for the same rowset, segments and base
\* rowsets, from the bitmap its first run produced and with the tablet's
\* bitmap unchanged, produces the bitmap of the first run; and the segments
\* of a rowset, which a token lets run in any order, produce the same bitmap
\* in either order.
C7_CalcIdempotent ==
    \A t \in Txns :
        txn[t].pc = "committed" =>
            \A ids \in SUBSET rs_version_map, token \in BOOLEAN, w \in WritersOf(t) :
                LET Rerun(r1) ==
                        calc_delete_bitmap(t, num_segments(t), get_rowset_by_ids(ids), r1.bm,
                                           max_version_unlocked, token, w, tablet_bitmap,
                                           <<-1, -1>>).bm = r1.bm
                    Swapped(r1, s1) ==
                        (num_segments(t) = 2 /\ ids # {}) =>
                            calc_segment_delete_bitmap(t, 0, get_rowset_by_ids(ids), s1.bm,
                                                       max_version_unlocked, w, tablet_bitmap,
                                                       -1).bm = r1.bm
                    Both(r1) ==
                        /\ Rerun(r1)
                        /\ Swapped(r1, calc_segment_delete_bitmap(
                                           t, 1, get_rowset_by_ids(ids), txn[t].delete_bitmap,
                                           max_version_unlocked, w, tablet_bitmap, -1))
                IN  Both(calc_delete_bitmap(t, num_segments(t), get_rowset_by_ids(ids),
                                            txn[t].delete_bitmap, max_version_unlocked, token,
                                            w, tablet_bitmap, <<-1, -1>>))

\* A first run over a partial update's rowset adds row marks to the bitmap
\* it starts from: the second run finds those rows marked.
C7_Witness ==
    \E t \in Txns :
        /\ txn[t].pc = "committed"
        /\ txn[t].mode = "FIXED"
        /\ LET Adds(r1) == /\ r1.st = "OK"
                           /\ remove_sentinel_marks(r1.bm) \ txn[t].delete_bitmap # {}
                           /\ r1.blocks # << >>
           IN  Adds(calc_delete_bitmap(t, num_segments(t), get_rowset_by_ids(rs_version_map),
                                       txn[t].delete_bitmap, max_version_unlocked, FALSE,
                                       Writer(txn[t].mode, txn[t].seq_in), tablet_bitmap,
                                       <<-1, -1>>))

\* update_delete_bitmap has returned OK for the transaction.
PublishedOK(t) ==
    \/ txn[t].pc = "returned" /\ txn[t].status = "OK"
    \/ txn[t].pc = "published"

\* C8 (as stated): after a publish that returned OK, the transaction's
\* bitmap holds a sentinel mark for every rowset of the visible set the
\* publish captured. Refuted: no mark is recorded with the correctness check
\* switched off, and a failed check outside a debug build returns OK.
C8_AsStated ==
    \A t \in Txns :
        (PublishedOK(t) /\ ~txn[t].deferred) =>
            missing_ids(txn[t].delete_bitmap, txn[t].cur_rowset_ids) = {}

\* C8: after a publish that returned OK for a rowset holding at least one
\* row, on a tablet not under alter, with the correctness check enabled at
\* every calculation of the transaction, the transaction's bitmap holds a
\* sentinel mark for every rowset of the visible set the publish captured.
C8_SentinelCompleteness ==
    \A t \in Txns :
        (PublishedOK(t) /\ ~txn[t].deferred /\ txn[t].checked /\ num_rows(t) # 0) =>
            missing_ids(txn[t].delete_bitmap, txn[t].cur_rowset_ids) = {}

\* The second transaction's publish returned OK with the check enabled: its
\* bitmap holds the sentinel mark of the first transaction's rowset.
C8_Witness ==
    /\ txn[2].pc = "returned" /\ txn[2].status = "OK"
    /\ txn[2].checked /\ ~txn[2].deferred /\ num_rows(2) # 0
    /\ txn[2].cur_rowset_ids = {1}
    /\ contains(txn[2].delete_bitmap, 1, INVALID_SEGMENT_ID, TEMP_VERSION_COMMON,
                ROWSET_SENTINEL_MARK)

\* The bitmap a calculation over the transaction's rowset against the given
\* visible rowsets produces from the empty bitmap.
CalcAgainst(t, ids) ==
    calc_delete_bitmap(t, num_segments(t), get_rowset_by_ids(ids), {}, max_version_unlocked,
                       FALSE, NoWriter, tablet_bitmap, <<-1, -1>>)

\* C9 (as stated): a calculation against rowsets that completes leaves a
\* sentinel mark for each of them. Refuted: with the correctness check
\* switched off no mark is added, and a calculation over no segment returns
\* before any mark.
C9_AsStated ==
    \A t \in Txns :
        txn[t].pc = "committed" =>
            \A ids \in SUBSET rs_version_map :
                LET Marked(r) == r.st = "OK" => missing_ids(r.bm, ids) = {}
                IN  Marked(CalcAgainst(t, ids))

\* C9: with the correctness check enabled, a calculation over at least one
\* segment that completes leaves a sentinel mark for every rowset it ran
\* against, whether or not a row of that rowset was marked.
C9_SentinelRecorded ==
    \A t \in Txns :
        (txn[t].pc = "committed" /\ enable_mow_check /\ num_segments(t) > 0) =>
            \A ids \in SUBSET rs_version_map :
                LET Marked(r) == r.st = "OK" => missing_ids(r.bm, ids) = {}
                IN  Marked(CalcAgainst(t, ids))

\* A calculation against a rowset marks none of that rowset's rows and
\* records its sentinel mark.
C9_Witness ==
    \E t \in Txns, o \in rs_version_map :
        /\ txn[t].pc = "committed" /\ enable_mow_check /\ num_segments(t) > 0
        /\ num_rows(o) # 0
        /\ LET NoRowMarked(r) ==
                  /\ r.st = "OK"
                  /\ \A m \in remove_sentinel_marks(r.bm) : m[1] # o
                  /\ contains(r.bm, o, INVALID_SEGMENT_ID, TEMP_VERSION_COMMON,
                              ROWSET_SENTINEL_MARK)
           IN  NoRowMarked(CalcAgainst(t, {o}))

\* C10: a correctness check that fails in a publish leaves one of two
\* outcomes. Where the DCHECK is compiled out, update_delete_bitmap goes on
\* with status OK, and has saved the bitmap and returned OK once it returns.
\* Where the DCHECK is compiled in, the process ends in the check: nothing
\* is saved and nothing returns.
C10_CheckFailureDegrades ==
    \A t \in Txns :
        txn[t].check_failed =>
            \/ /\ dcheck = "compiled_out"
               /\ txn[t].status = "OK"
               /\ txn[t].pc \in {"aligned", "returned", "published"}
               /\ txn[t].pc # "aligned" => txn[t].saved
            \/ /\ dcheck = "aborted"
               /\ txn[t].status = "ABORT"
               /\ txn[t].pc = "publishing"
               /\ ~txn[t].saved

\* A publish whose correctness check failed has saved its bitmap and
\* returned OK.
C10_Witness ==
    \E t \in Txns :
        /\ txn[t].check_failed
        /\ dcheck = "compiled_out"
        /\ txn[t].pc = "returned"
        /\ txn[t].status = "OK"
        /\ txn[t].saved
        /\ missing_ids(txn[t].delete_bitmap, txn[t].cur_rowset_ids) # {}


\* ------------------------------------------------------ compaction scheduler
Budget == scheduler.compaction_num_per_round

\* The last round tuned the budget at this queue depth.
TunedAt(depths) == scheduler.tuned_at \in depths

\* C11: a round that finds the pool's queue empty doubles the budget, bounded
\* at the ceiling (4 becomes 8, 64 stays 64), and over any sequence of rounds
\* the budget is never above the ceiling.
C11_DoublesUpToCeiling ==
    /\ Budget <= max_compaction_num_per_round
    /\ TunedAt({0}) =>
          /\ Budget = Min({2 * scheduler.tuned_from, max_compaction_num_per_round})
          /\ scheduler.tuned_from = 4 => Budget = 8
          /\ scheduler.tuned_from = 64 => Budget = 64

\* A round found the queue empty with the budget at the ceiling.
C11_Witness == TunedAt({0}) /\ scheduler.tuned_from = max_compaction_num_per_round

\* C12: a round that finds the queue depth at or above the high-water mark
\* halves the budget, bounded at the floor (8 with a queue of 5 becomes 4; 1
\* with a queue of 1 stays 1), and the budget is never below the floor.
C12_HalvesDownToFloor ==
    /\ Budget >= min_compaction_num_per_round
    /\ TunedAt(scheduler.high_water .. MaxQueued + 1) =>
          Budget = Max({scheduler.tuned_from \div 2, min_compaction_num_per_round})
    /\ TunedAt({5}) /\ scheduler.tuned_from = 8 => Budget = 4
    /\ TunedAt({1}) /\ scheduler.tuned_from = 1 => Budget = 1

\* A round found the queue at the high-water mark or above with the budget
\* at the floor.
C12_Witness ==
    /\ TunedAt(scheduler.high_water .. MaxQueued + 1)
    /\ scheduler.tuned_from = min_compaction_num_per_round

\* C13: a round that finds the queue non-empty but below the high-water mark
\* leaves the budget as it is (8 with a queue of 3 stays 8).
C13_HoldsSteady ==
    TunedAt(1 .. scheduler.high_water - 1) => Budget = scheduler.tuned_from

\* A round found a queue of 3 with a budget of 8.
C13_Witness == TunedAt({3}) /\ scheduler.tuned_from = 8

\* C14: the tasks executing in the storage directory are never more than
\* the pool's threads; every submission returns OK and what the threads do
\* not run waits in the queue (10 tasks submitted to 2 threads: once no
\* thread is idle, exactly 2 execute and 8 wait).
C14_ExecutingWithinCap ==
    /\ scheduler.executing <= max_threads
    /\ scheduler.st \in {"NONE", "OK"}
    /\ scheduler.total_queued_tasks > 0 /\ ~has_idle_thread(scheduler)
          => scheduler.executing = max_threads

\* Ten tasks were submitted: two execute and eight wait.
C14_Witness ==
    /\ scheduler.st = "OK"
    /\ scheduler.executing = max_threads
    /\ scheduler.executing + scheduler.total_queued_tasks = 10


\* ------------------------------------------------------------- commit phase
\* The commit phase of the load has returned.
CommitPhaseReturned(t) ==
    /\ txn[t].pc = "open" /\ txn[t].mode = "NONE"
    /\ txn'[t].pc # "open"

\* C15: a commit phase that finds the tablet NOT_READY returns OK and computes
\* nothing: the load is committed with the bitmap it handed in and with the
\* rowset ids it had seen before.
C15_NotReadyIsNoOp ==
    [][\A t \in Txns :
          (tablet_state = "NOTREADY" /\ CommitPhaseReturned(t))
          => /\ txn'[t].pc = "committed"
             /\ txn'[t].rowset_ids = txn[t].rowset_ids
             /\ txn'[t].delete_bitmap = txn[t].delete_bitmap]_vars

\* A load was committed while the tablet was NOT_READY: its bitmap holds
\* marks, the rowsets it saw hold one that is gone and miss a visible one.
C15_Witness ==
    \E t \in Txns :
        /\ tablet_state = "NOTREADY"
        /\ txn[t].pc = "committed"
        /\ txn[t].delete_bitmap # {}
        /\ txn[t].rowset_ids \ rs_version_map # {}
        /\ rs_version_map \ txn[t].rowset_ids # {}

\* The ids the commit phase snapshots, and the ids the write had seen.
CurrentIds == get_all_rs_id_unlocked(max_version_unlocked).ids
MarksOf(bm, ids) == {m \in bm : m[1] \in ids}

\* C16: the commit phase diffs the current rowset ids against the ids known
\* when the write started: to_add is current minus previous, to_del previous
\* minus current, the two disjoint; after a commit phase that succeeded the
\* bitmap holds no entry of a to_del rowset, the entries it gained are on
\* to_add rowsets or on the new rowset, the entries of the rowsets in both
\* sets are as before, and the previous set is the current snapshot.
C16_CommitPhaseDiff ==
    [][\A t \in Txns :
          (tablet_state # "NOTREADY" /\ CommitPhaseReturned(t))
          => LET to_add == CurrentIds \ txn[t].rowset_ids
                 to_del == txn[t].rowset_ids \ CurrentIds
                 kept   == txn[t].rowset_ids \cap CurrentIds
             IN  /\ rowset_ids_difference(CurrentIds, txn[t].rowset_ids) =
                        [to_add |-> to_add, to_del |-> to_del]
                 /\ to_add \cap to_del = {}
                 /\ txn'[t].pc = "committed" =>
                       /\ MarksOf(txn'[t].delete_bitmap, to_del) = {}
                       /\ MarksOf(txn'[t].delete_bitmap, kept) =
                              MarksOf(txn[t].delete_bitmap, kept)
                       /\ \A m \in txn'[t].delete_bitmap \ txn[t].delete_bitmap :
                              m[1] \in to_add \cup {t}
                       /\ txn'[t].rowset_ids = CurrentIds]_vars

\* A commit phase succeeded with the visible rowset as its snapshot: the
\* bitmap marks a row of it and holds no entry of the rowset that is gone.
C16_Witness ==
    \E t \in Txns :
        /\ tablet_state = "RUNNING"
        /\ txn[t].pc = "committed"
        /\ txn[t].rowset_ids = {1}
        /\ \E m \in txn[t].delete_bitmap : m[1] = 1 /\ m[2] # INVALID_SEGMENT_ID
        /\ MarksOf(txn[t].delete_bitmap, StaleRowsets) = {}


\* --------------------------------------------------------------- compaction
\* The entries of the input rowsets' rows with a version in the range: from
\* start_version up to, and leaving out, end_version; and with end_version.
InRange(c, m) ==
    /\ m[2] < num_segments(m[1])
    /\ c.start_version <= m[3] /\ m[3] < c.end_version

UpToEnd(c, m) ==
    /\ m[2] < num_segments(m[1])
    /\ c.start_version <= m[3] /\ m[3] <= c.end_version

\* The call of calc_compaction_output_rowset_delete_bitmap has returned.
Calculated == compaction.pc = "merged" /\ compaction'.pc = "calculated"

\* What the output bitmap and the missed rows hold comes from an entry of
\* the range: a destination under the entry's version, a source without one.
OnlyFromTheRange(c, bm) ==
    /\ \A o \in c.output_rowset_delete_bitmap :
          \E m \in bm : /\ UpToEnd(c, m) /\ has_destination(c.rowid_conversion, m)
                        /\ o = <<c.rowid_conversion[src_of(m)][1],
                                 c.rowid_conversion[src_of(m)][2], m[3],
                                 c.rowid_conversion[src_of(m)][3]>>
    /\ \A src \in c.missed_rows.rows :
          \E m \in bm : /\ UpToEnd(c, m) /\ ~has_destination(c.rowid_conversion, m)
                        /\ src = src_of(m)

\* An entry with a destination is in the output under its version and its
\* source is not missed.
Reexpressed(c, m) ==
    /\ <<c.rowid_conversion[src_of(m)][1], c.rowid_conversion[src_of(m)][2], m[3],
         c.rowid_conversion[src_of(m)][3]>> \in c.output_rowset_delete_bitmap
    /\ src_of(m) \notin c.missed_rows.rows

Mismatch(rs) ==
    \E i \in 1 .. Len(compaction.location_map.map[rs]) :
        read_key_by_rowid(rowsets[rs].segs, compaction.location_map.map[rs][i][1]) #
        read_key_by_rowid(OutputSegments, compaction.location_map.map[rs][i][2])

Remapped == DOMAIN compaction.location_map.map

\* The claim as stated: the check succeeds only if every pair of the
\* location map is equal.
C18_AsStated ==
    compaction.pc = "checked" =>
        /\ Remapped = {} => compaction.st = "OK"
        /\ compaction.st = "OK" => \A rs \in Remapped : ~Mismatch(rs)

\* C18: check_rowid_conversion succeeds on an empty location map; it reads
\* the key at the source and at the destination of the remapped rows and
\* succeeds only if every pair is equal in every rowset whose primary key
\* index can be read by row id: a rowset whose index answers
\* NOT_IMPLEMENTED_ERROR is left unchecked. It returns InternalError only for
\* a pair that differs; a pair that differs makes it fail with InternalError,
\* with the error of a read that failed before, or, in a debug build, by the
\* DCHECK that ends the process.
C18_CheckRowidConversion ==
    compaction.pc = "checked" =>
        /\ Remapped = {} => compaction.st = "OK"
        /\ compaction.st = "OK" =>
              \A rs \in Remapped \ compaction.unsupported : ~Mismatch(rs)
        /\ compaction.st = "INTERNAL_ERROR" =>
              \E rs \in Remapped \ compaction.unsupported : Mismatch(rs)
        /\ compaction.st \in {"OK", "INTERNAL_ERROR", "IO_ERROR", "ABORT"}
        /\ compaction.st = "ABORT" <=> dcheck = "aborted"

\* The check succeeded over a pair that differs, in a rowset whose index
\* cannot be read by row id, and over an equal pair in another rowset.
C18_Witness ==
    /\ compaction.pc = "checked"
    /\ compaction.st = "OK"
    /\ \E rs \in Remapped \cap compaction.unsupported : Mismatch(rs)
    /\ Remapped \ compaction.unsupported # {}


\* ------------------------------------------------------------------- lookup
\* The segments (rowset, segment id) of the rowsets that hold the key in a
\* row the bitmap does not mark at the version.
LiveSegments(S, key, version, bm) ==
    UNION {{<<rs, j - 1>> :
               j \in {h \in 1 .. num_segments(rs) :
                        \E i \in 1 .. Len(rowsets[rs].segs[h]) :
                            /\ rowsets[rs].segs[h][i].key = key
                            /\ ~contains_agg_without_cache(bm, rs, h - 1, version, i - 1)}} :
              rs \in S}

\* The place of the rowset in the list of candidates.
ListedAt(specified_rowsets, rs) ==
    CHOOSE i \in 1 .. Len(specified_rowsets) : specified_rowsets[i] = rs

\* The versions a lookup can ask for.
LookupVersions == 1 .. NumTxns + 1

CalcRow(i) == rowsets[NewRowset].segs[calc.seg + 1][i + 1]

LookedUp ==
    {i \in 0 .. Len(rowsets[NewRowset].segs[calc.seg + 1]) - 1 :
        /\ calc.fail_row < 0 \/ i < calc.fail_row
        /\ ~contains(calc.before, NewRowset, calc.seg, TEMP_VERSION_COMMON, i)}

LookupOf(i) ==
    lookup_row_key(CalcRow(i).key, CalcRow(i).seq, TRUE, calc.specified_rowsets,
                   calc.end_version, tablet_bitmap)

MarkOf(loc) == <<loc[1], loc[2], TEMP_VERSION_COMMON, loc[3]>>

FullRowWrite == ~calc.w.present \/ calc.w.mode = "NONE"

\* C21: in a calculation for a write that is no partial update, a row whose
\* lookup returns KEY_ALREADY_EXISTS (the row found carries a higher sequence
\* value) is marked deleted under the new rowset, its segment and the
\* temporary version, and the row found gets no mark.
C21_AlreadyExistsDeletesNewRow ==
    (calc.pc = "calculated" /\ FullRowWrite) =>
        \A i \in LookedUp :
            LET Handled(r) ==
                    r.st = "KEY_ALREADY_EXISTS" =>
                        /\ RowAt(r.loc).key = CalcRow(i).key
                        /\ RowAt(r.loc).seq > CalcRow(i).seq
                        /\ <<NewRowset, calc.seg, TEMP_VERSION_COMMON, i>> \in calc.bm
                        /\ MarkOf(r.loc) \notin calc.bm
            IN  Handled(LookupOf(i))

\* A full-row calculation has looked up a row of a two-row segment that an
\* existing row beats.
C21_Witness ==
    /\ calc.pc = "calculated"
    /\ FullRowWrite
    /\ calc.st = "OK"
    /\ Len(rowsets[NewRowset].segs[calc.seg + 1]) = 2
    /\ \E i \in LookedUp : LookupOf(i).st = "KEY_ALREADY_EXISTS"


\* C22: a row whose lookup succeeds has the row found marked deleted under
\* that row's own rowset and segment at the temporary version; when the
\* write is no partial update the new row gets no mark; and every mark the
\* calculation writes is under the temporary version.
C22_FoundRowIsMarked ==
    calc.pc = "calculated" =>
        /\ \A i \in LookedUp :
              LET Handled(r) ==
                      r.st = "OK" =>
                          /\ r.loc[1] = BaseRowset
                          /\ RowAt(r.loc).key = CalcRow(i).key
                          /\ contains(calc.bm, r.loc[1], r.loc[2], TEMP_VERSION_COMMON,
                                      r.loc[3])
                          /\ FullRowWrite =>
                                <<NewRowset, calc.seg, TEMP_VERSION_COMMON, i>> \notin calc.bm
              IN  Handled(LookupOf(i))
        /\ \A m \in calc.bm \ calc.before : m[3] = TEMP_VERSION_COMMON

\* A calculation looked up two rows: the first is a new key, the second
\* resolves to an existing row.
C22_Witness ==
    /\ calc.pc = "calculated"
    /\ calc.st = "OK"
    /\ LookedUp = {0, 1}
    /\ LookupOf(0).st = "KEY_NOT_FOUND"
    /\ LookupOf(1).st = "OK"
    /\ calc.bm # calc.before


\* The marks the calculation added on rows holding the key.
AddedOnKey(key) ==
    {m \in calc.bm \ calc.before :
        /\ m[2] # INVALID_SEGMENT_ID
        /\ RowAt(<<m[1], m[2], m[4]>>).key = key}

\* KEY_NOT_FOUND and KEY_ALREADY_EXISTS are resolved inside the calculation:
\* neither is the status returned, a row that is not found adds no mark on
\* its key, and the rows after such a row are resolved as well.
BenignResolved ==
    /\ calc.st \notin {"KEY_NOT_FOUND", "KEY_ALREADY_EXISTS"}
    /\ calc.fail_row < 0 => calc.st = "OK"
    /\ \A i \in LookedUp :
          LET Handled(r) ==
                  /\ r.st = "KEY_NOT_FOUND" => AddedOnKey(CalcRow(i).key) = {}
                  /\ r.st # "KEY_NOT_FOUND" => AddedOnKey(CalcRow(i).key) # {}
          IN  Handled(LookupOf(i))

\* The calculation ended at the failing lookup: no row from it on was
\* resolved and no sentinel mark was added.
EndedAtFailure ==
    /\ \A m \in calc.bm \ calc.before : m[2] # INVALID_SEGMENT_ID
    /\ \A i \in calc.fail_row .. Len(rowsets[NewRowset].segs[calc.seg + 1]) - 1 :
          <<NewRowset, calc.seg, TEMP_VERSION_COMMON, i>> \notin calc.bm \ calc.before
    /\ calc.block = << >>

\* C23 as stated: every other lookup status ends the calculation and is the
\* status returned.
C23_AsStated ==
    calc.pc = "calculated" =>
        /\ BenignResolved
        /\ calc.fail_row >= 0 => (EndedAtFailure /\ calc.st = calc.lookup_st)

\* C23: KEY_NOT_FOUND and KEY_ALREADY_EXISTS never leave the calculation and
\* the scan goes on after them; any other lookup status ends the
\* calculation: MEM_LIMIT_EXCEEDED is returned as it is in every build, and
\* any further status is returned as it is by a release build and ends the
\* process of a debug build at the DCHECK.
C23_LookupStatusPropagation ==
    calc.pc = "calculated" =>
        /\ BenignResolved
        /\ calc.fail_row >= 0 =>
              /\ EndedAtFailure
              /\ (calc.lookup_st = "MEM_LIMIT_EXCEEDED" \/ ~calc.debug)
                    => calc.st = calc.lookup_st
              /\ (calc.lookup_st # "MEM_LIMIT_EXCEEDED" /\ calc.debug)
                    => calc.st = "ABORT"

\* A debug build resolved a row that already exists and then met an I/O
\* error at the lookup of the next row.
C23_Witness ==
    /\ calc.pc = "calculated"
    /\ calc.fail_row = 1
    /\ 0 \in LookedUp
    /\ LookupOf(0).st = "KEY_ALREADY_EXISTS"
    /\ calc.lookup_st = "IO_ERROR"
    /\ calc.debug
    /\ calc.st = "ABORT"



\* --------------------------------------------- partial-update reconstruction
\* The columns the load of a fixed partial update leaves out.
MissingCids == ValueColumns \ rebuild.update_cids

BuiltFixed == rebuild.pc = "built" /\ rebuild.mode = "FIXED"

\* Every update column of every reconstructed row, and its key, is the new
\* row's.
UpdateColumnsFromNew ==
    \A idx \in 1 .. Len(rebuild.plan) :
        \A c \in {"k"} \cup rebuild.update_cids :
            rebuild.block[idx][c] = rebuild.plan[idx].new[c]

\* C24 as stated: every missing column is the old row's, and that of a
\* deleted old row is NULL or the type's default when the column declares
\* no default.
C24_AsStated ==
    BuiltFixed =>
        /\ UpdateColumnsFromNew
        /\ \A idx \in 1 .. Len(rebuild.plan) : \A c \in MissingCids :
              /\ rebuild.plan[idx].old["del"] = 0
                    => rebuild.block[idx][c] = rebuild.plan[idx].old[c]
              /\ (rebuild.plan[idx].old["del"] # 0 /\ ~rebuild.schema[c].has_default_value)
                    => rebuild.block[idx][c] \in {NullValue, TypeDefault}

\* The new row carries a delete sign the reconstruction looks at.
NewRowDeleted(idx) ==
    /\ ~has_sequence_col
    /\ "del" \in rebuild.update_cids
    /\ rebuild.plan[idx].new["del"] # 0

\* C24: a fixed partial update builds each row from the update columns of
\* the new row and the missing columns of the old row: (1, a, b) and (1, z)
\* give (1, a, z). A missing column is not read from the old row in two
\* cases. When the table has no sequence column and the new row carries the
\* delete sign, it is NULL or the type's default. Otherwise, when the old
\* row carries the delete sign, it is the declared default, or NULL or the
\* type's default when none is declared, and never the old value; the
\* sequence column alone keeps the old row's value.
C24_FixedReconstruction ==
    BuiltFixed =>
        /\ UpdateColumnsFromNew
        /\ \A idx \in 1 .. Len(rebuild.plan) : \A c \in MissingCids :
              LET column == rebuild.schema[c]
                  old == rebuild.plan[idx].old
                  cell == rebuild.block[idx][c]
              IN  /\ NewRowDeleted(idx)
                        => cell = (IF column.is_nullable THEN NullValue ELSE TypeDefault)
                  /\ (~NewRowDeleted(idx) /\ (old["del"] = 0 \/ c = "seq"))
                        => cell = old[c]
                  /\ (~NewRowDeleted(idx) /\ old["del"] # 0 /\ c # "seq")
                        => /\ column.has_default_value => cell = column.default_value
                           /\ ~column.has_default_value => cell \in {NullValue, TypeDefault}
                           /\ cell # old[c] \/ c = "del"

\* A block of two rows is built: the old row of the first is live, the old
\* row of the second carries the delete sign, and c1 declares no default.
C24_Witness ==
    /\ BuiltFixed
    /\ Len(rebuild.plan) = 2
    /\ "c1" \in MissingCids
    /\ ~rebuild.schema["c1"].has_default_value
    /\ \A idx \in 1 .. 2 : ~NewRowDeleted(idx)
    /\ rebuild.plan[1].old["del"] = 0
    /\ rebuild.plan[2].old["del"] # 0
    /\ rebuild.block[1]["c1"] = ValueA /\ rebuild.block[1]["c2"] = ValueZ
    /\ rebuild.block[2]["c1"] \in {NullValue, TypeDefault}
    /\ rebuild.block[2]["c2"] = ValueZ

\* The rowsets to add of the publish of t, the ones of them produced by
\* compaction no later than the version seen in the flush phase, and the rest.
ToAdd(t) ==
    rowset_ids_difference(get_all_rs_id_unlocked(rowsets[t].version - 1).ids,
                          txn[t].rowset_ids).to_add
SkipGroup(t) ==
    {r \in ToAdd(t) : /\ rowsets[r].by_compaction
                      /\ rowsets[r].version <= txn[t].max_version_in_flush_phase}
RestGroup(t) == ToAdd(t) \ SkipGroup(t)

\* The places of the rows of a rowset, the new rows of t no earlier step has
\* marked, and the rows of a group holding the key of a new row that a reader
\* just below t's version sees.
Places(r) ==
    {<<r, j - 1, i - 1>> : <<j, i>> \in {x \in (1 .. num_segments(r)) \X (1 .. NumKeys) :
                                          x[2] <= Len(rowsets[r].segs[x[1]])}}
UnmarkedNewRows(t) == {a \in Places(t) : MarkOf(a) \notin txn[t].delete_bitmap}
LiveConflicts(t, a, group) ==
    {loc \in UNION {Places(r) : r \in group} :
        /\ RowAt(loc).key = RowAt(a).key
        /\ ~contains_agg_without_cache(tablet_bitmap, loc[1], loc[2],
                                       rowsets[t].version - 1, loc[3])}
BlockKeys(blocks) ==
    {blocks[b][i].key : <<b, i>> \in {x \in (1 .. Len(blocks)) \X (1 .. NumKeys) :
                                         x[2] <= Len(blocks[x[1]])}}

\* The publish of the partial update t has computed its bitmap.
AlignedPartial(t) ==
    /\ txn[t].pc = "committed"
    /\ txn[t].mode # "NONE"
    /\ txn'[t].pc = "aligned"

\* C25: in the publish phase of a partial update the rowsets to add fall
\* into two groups that partition them: the ones produced by compaction and
\* ending at or before the version seen in the flush phase, and the rest.
\* A conflict with a row of the first group is computed into the bitmap (the
\* old row is marked, the new one is not) and queues no row for
\* reconstruction; a conflict with a
\* row of the rest goes through the alignment: the new row is marked, and
\* the old row is marked and a rebuilt row queued unless the load's own
\* sequence value loses to the old row's.
C25_SkipGroupCalculatedNotAligned ==
    [][\A t \in PublishTxns : AlignedPartial(t) =>
          /\ SeqToSet(select_rowsets(t, get_rowset_by_ids(ToAdd(t)), TRUE)) = SkipGroup(t)
          /\ SeqToSet(select_rowsets(t, get_rowset_by_ids(ToAdd(t)), FALSE)) = RestGroup(t)
          /\ \A a \in UnmarkedNewRows(t) :
                /\ \A loc \in LiveConflicts(t, a, SkipGroup(t)) :
                      /\ MarkOf(loc) \in txn'[t].work
                      /\ MarkOf(a) \notin txn'[t].work
                      /\ RowAt(a).key \notin BlockKeys(txn'[t].blocks)
                /\ \A loc \in LiveConflicts(t, a, RestGroup(t)) :
                      /\ MarkOf(a) \in txn'[t].work
                      /\ \/ /\ has_sequence_col /\ txn[t].seq_in
                            /\ RowAt(loc).seq > RowAt(a).seq
                            /\ MarkOf(loc) \notin txn'[t].work
                         \/ /\ MarkOf(loc) \in txn'[t].work
                            /\ RowAt(a).key \in BlockKeys(txn'[t].blocks)]_vars

\* The bitmap of a partial update was computed against a compaction's output
\* holding a row it conflicts with, and against a rowset published since the
\* load was written: the old row is marked and no row is queued.
C25_Witness ==
    \E t \in PublishTxns :
        /\ txn[t].pc = "aligned"
        /\ txn[t].mode # "NONE"
        /\ RestGroup(t) # {}
        /\ txn[t].blocks = << >>
        /\ \E a \in Places(t), loc \in UNION {Places(r) : r \in SkipGroup(t)} :
              /\ RowAt(loc).key = RowAt(a).key
              /\ MarkOf(loc) \in txn[t].work
              /\ MarkOf(a) \notin txn[t].work

\* The row ids the bitmap marks in a segment of a rowset.
MarkedRows(bm, rs, seg) == {m[4] : m \in {x \in bm : x[1] = rs /\ x[2] = seg}}

RECURSIVE FirstErrorOf(_, _)
FirstErrorOf(outcome, order) ==
    IF order = << >> THEN "OK"
    ELSE IF outcome[Head(order)] # "OK" THEN outcome[Head(order)]
    ELSE FirstErrorOf(outcome, Tail(order))

\* C27: wait() on the token returns only after every submitted segment task
\* has completed, a failed task or not; it returns the first error a task
\* returned, OK when none failed; and the publish goes on to the save only
\* when wait() returned OK.
C27_WaitJoinsEveryTask ==
    /\ calc_token.wait_st # "none" =>
          /\ calc_token.submitted = calc_token.segments
          /\ SeqToSet(calc_token.finished) = 0 .. calc_token.segments - 1
          /\ calc_token.wait_st = FirstErrorOf(calc_token.outcome, calc_token.finished)
    /\ calc_token.pc = "save" => calc_token.wait_st = "OK"

\* wait() returned an error after a task that completed later than the
\* failed one, and after a second failure.
C27_Witness ==
    /\ calc_token.pc = "returned_error"
    /\ calc_token.wait_st = "IO_ERROR"
    /\ \E i, j \in 1 .. Len(calc_token.finished) :
          /\ i < j
          /\ calc_token.outcome[calc_token.finished[i]] = "IO_ERROR"
          /\ calc_token.outcome[calc_token.finished[j]] = "MEM_LIMIT_EXCEEDED"
    /\ \E k \in 1 .. Len(calc_token.finished) :
          calc_token.outcome[calc_token.finished[k]] = "OK"

\* C28: the join never times out. It returns only with the event's count at
\* zero, that is with no submitted part left unsignalled; an interval that
\* expires with a count left only logs and moves the deadline, the join
\* still waiting; and with every count added for a part that signals, a
\* join that waits eventually returns.
C28_JoinNeverTimesOut ==
    /\ [](s3_writer._countdown_event
             = Cardinality(s3_writer.tasks) + s3_writer.unmatched)
    /\ [][s3_writer.pc = "waiting" /\ s3_writer'.pc # "waiting" =>
             /\ s3_writer'.pc = "joined"
             /\ s3_writer._countdown_event = 0
             /\ s3_writer.tasks = {}]_vars
    /\ [][s3_writer.pc = "waiting" /\ s3_writer'.logged # s3_writer.logged =>
             /\ s3_writer._countdown_event # 0
             /\ s3_writer'.pc = "waiting"
             /\ s3_writer'.logged = s3_writer.logged + 1
             /\ s3_writer'.deadline = s3_writer.deadline + 1
             /\ s3_writer'._countdown_event = s3_writer._countdown_event]_vars
    /\ (s3_writer.pc = "waiting" /\ s3_writer.unmatched = 0) ~> (s3_writer.pc = "joined")

\* A join returned after intervals that expired with parts still uploading.
C28_Witness ==
    /\ s3_writer.pc = "joined"
    /\ s3_writer.logged = MaxIntervals
    /\ s3_writer._cur_part_num > 2
    /\ s3_writer._failed

\* C29: the producer checks the stop latch after each round and leaves its
\* loop only there, with the latch down; once it has left, the budget is
\* never adjusted and no task is submitted again; and a started producer
\* whose latch has been counted down eventually leaves its loop.
C29_ProducerStopsAtLatch ==
    /\ [][scheduler.producer = "in_round" /\ scheduler'.producer # "in_round" =>
             scheduler'.producer = "at_latch"]_vars
    /\ [][scheduler.producer # "exited" /\ scheduler'.producer = "exited" =>
             /\ scheduler.producer = "at_latch"
             /\ scheduler._stop_background_threads_latch = 0]_vars
    /\ [][scheduler.producer = "exited" =>
             /\ scheduler'.producer = "exited"
             /\ scheduler'.compaction_num_per_round = scheduler.compaction_num_per_round
             /\ scheduler'.tuned_from = scheduler.tuned_from
             /\ scheduler'.tuned_at = scheduler.tuned_at
             /\ scheduler'.total_queued_tasks <= scheduler.total_queued_tasks]_vars
    /\ (scheduler._stop_background_threads_latch = 0 /\ scheduler.producer # "not_started")
           ~> (scheduler.producer = "exited")

\* The latch was counted down, the producer did its round (the budget went
\* from 4 to 8 at an empty queue) and left.
C29_Witness ==
    /\ scheduler.producer = "exited"
    /\ scheduler._stop_background_threads_latch = 0
    /\ scheduler.tuned_from = 4
    /\ scheduler.tuned_at = 0
    /\ scheduler.compaction_num_per_round = 8

\* The new row of the entry specifies the sequence column: the load writes
\* it (fixed), or the row's skip bitmap does not hold it (flexible).
SpecifiesSeq(idx) ==
    IF rebuild.mode = "FIXED" THEN "seq" \in rebuild.update_cids
    ELSE "seq" \notin rebuild.plan[idx].skip

\* C30: with a sequence column in the table, no reconstructed row has a
\* smaller sequence value than the old row it replaces; a row that does not
\* specify the sequence column gets the old row's sequence value, delete
\* sign on the old row or not, and in flexible mode it gets the old row's
\* value of the sequence-map column as well.
C30_SequenceNeverDecreases ==
    (rebuild.pc = "built" /\ has_sequence_col) =>
        \A idx \in 1 .. Len(rebuild.plan) :
            /\ rebuild.block[idx]["seq"] >= rebuild.plan[idx].old["seq"]
            /\ ~SpecifiesSeq(idx) =>
                  /\ rebuild.block[idx]["seq"] = rebuild.plan[idx].old["seq"]
                  /\ (rebuild.mode = "FLEXIBLE" /\ rebuild.sequence_map_col # "none") =>
                        rebuild.block[idx][rebuild.sequence_map_col] =
                            rebuild.plan[idx].old[rebuild.sequence_map_col]

\* A flexible partial update met an old row carrying the delete sign; its
\* row specifies neither the sequence column nor the sequence-map column c1
\* and is rebuilt with the old row's values of both.
C30_Witness ==
    /\ rebuild.pc = "built"
    /\ has_sequence_col
    /\ rebuild.mode = "FLEXIBLE"
    /\ rebuild.sequence_map_col = "c1"
    /\ rebuild.plan[1].old["del"] # 0
    /\ ~SpecifiesSeq(1)
    /\ rebuild.plan[1].new["seq"] < rebuild.plan[1].old["seq"]
    /\ rebuild.block[1]["seq"] = rebuild.plan[1].old["seq"]
    /\ rebuild.block[1]["c1"] = ValueA
    /\ rebuild.block[1]["c2"] = ValueZ

\* The rows of the calculated segment the bitmap handed in marks at the
\* temporary version and the scan has passed.
PassedMarked ==
    {i \in 0 .. Len(rowsets[NewRowset].segs[calc.seg + 1]) - 1 :
        /\ calc.fail_row < 0 \/ i < calc.fail_row
        /\ <<NewRowset, calc.seg, TEMP_VERSION_COMMON, i>> \in calc.before}

\* C31: a row of the new segment that the working bitmap already marks at
\* the temporary version is skipped: the calculation adds no mark on any row
\* holding its key, whatever a lookup of the key would find, and queues no
\* row of that key for reconstruction.
C31_MarkedRowIsSkipped ==
    calc.pc = "calculated" =>
        \A i \in PassedMarked :
            /\ AddedOnKey(CalcRow(i).key) = {}
            /\ \A p \in 1 .. Len(calc.block) : calc.block[p].key # CalcRow(i).key

\* The scan passed a marked row whose key a published row holds, with the
\* writer of a partial update, and resolved another row after it.
C31_Witness ==
    /\ calc.pc = "calculated"
    /\ calc.st = "OK"
    /\ calc.w.present
    /\ \E i \in PassedMarked : LookupOf(i).st = "OK"
    /\ Len(calc.block) = 1

\* The read plans and rids_be_overwritten the scan of a calculation that
\* met no failure has built.
ReadPlans ==
    calc_rows(NewRowset, calc.seg, 0, Len(rowsets[NewRowset].segs[calc.seg + 1]),
              calc.specified_rowsets, calc.end_version, calc.w, tablet_bitmap,
              [bm |-> calc.before, ori |-> << >>, upd |-> << >>, overwritten |-> {}])

\* The positions of the read plans that pair the row i of the calculated
\* segment with the row found at loc.
QueuedAt(plans, i, loc) ==
    {pos \in 1 .. Len(plans.upd) :
        /\ pos <= Len(plans.ori)
        /\ plans.upd[pos] = <<NewRowset, calc.seg, i>>
        /\ plans.ori[pos] = loc}

PartialCalc == calc.pc = "calculated" /\ calc.st = "OK" /\ is_partial_update(calc.w)

\* C32 as stated: for a partial update every key whose lookup returns
\* KEY_ALREADY_EXISTS is queued on the read plans and its new row is not
\* deleted outright.
C32_AsStated ==
    PartialCalc =>
        \A i \in LookedUp :
            LET Handled(r, plans) ==
                    r.st = "KEY_ALREADY_EXISTS" => QueuedAt(plans, i, r.loc) # {}
            IN  Handled(LookupOf(i), ReadPlans)

\* C32: for a partial update a key whose lookup returns KEY_ALREADY_EXISTS
\* is queued on the read plans, old and new row location at one position
\* (a flexible partial update also records the position as overwritten),
\* unless the update is a fixed one whose columns hold the sequence column:
\* then the new row is marked deleted, the old row is not, and nothing is
\* queued.
C32_AlreadyExistsInPartialUpdate ==
    PartialCalc =>
        \A i \in LookedUp :
            LET Handled(r, plans) ==
                    r.st = "KEY_ALREADY_EXISTS" =>
                        IF calc.w.mode = "FIXED" /\ has_sequence_col /\ calc.w.seq_in
                        THEN /\ QueuedAt(plans, i, r.loc) = {}
                             /\ <<NewRowset, calc.seg, TEMP_VERSION_COMMON, i>> \in calc.bm
                             /\ MarkOf(r.loc) \notin calc.bm
                        ELSE /\ Cardinality(QueuedAt(plans, i, r.loc)) = 1
                             /\ calc.w.mode = "FLEXIBLE" =>
                                   \A pos \in QueuedAt(plans, i, r.loc) :
                                       pos - 1 \in plans.overwritten
            IN  Handled(LookupOf(i), ReadPlans)

\* A flexible partial update met a row that an existing row beats and
\* queued it.
C32_Witness ==
    /\ PartialCalc
    /\ calc.w.mode = "FLEXIBLE"
    /\ \E i \in LookedUp : LookupOf(i).st = "KEY_ALREADY_EXISTS"
    /\ ReadPlans.overwritten # {}

\* The rows of the calculated segment whose lookup found a row and which are
\* not deleted outright: the conflicting keys of the reconstruction path.
Requeued ==
    {i \in LookedUp :
        /\ LookupOf(i).st \in {"OK", "KEY_ALREADY_EXISTS"}
        /\ ~(LookupOf(i).st = "KEY_ALREADY_EXISTS"
             /\ calc.w.mode = "FIXED" /\ has_sequence_col /\ calc.w.seq_in)}

\* The rows holding the key among the rowsets looked up and the calculated
\* segment that no mark covers once the calculation has returned.
UnmarkedOnKey(key) ==
    {loc \in (SeqToSet(calc.specified_rowsets) \X (0 .. MaxSegs - 1)
              \X (0 .. MaxRows - 1)) \cup ({NewRowset} \X {calc.seg} \X (0 .. MaxRows - 1)) :
        /\ loc[2] < num_segments(loc[1])
        /\ loc[3] < Len(rowsets[loc[1]].segs[loc[2] + 1])
        /\ RowAt(loc).key = key
        /\ MarkOf(loc) \notin calc.bm
        /\ ~(loc[1] # NewRowset
             /\ contains_agg_without_cache(tablet_bitmap, loc[1], loc[2],
                                           calc.end_version, loc[3]))}

\* C33: a partial update with a rowset writer queues every conflicting key
\* it does not delete outright once on each read plan, at one position, and
\* marks its old and its new row at the temporary version; the plans have
\* one length, the block has one row for each such key and none else, and
\* no other row of the key is left unmarked.
C33_ReadPlansPairUp ==
    PartialCalc =>
        LET Paired(plans) ==
                /\ Len(plans.ori) = Len(plans.upd)
                /\ Len(plans.upd) = Cardinality(Requeued)
                /\ Len(calc.block) = Cardinality(Requeued)
                /\ \A i \in Requeued :
                      /\ Cardinality(QueuedAt(plans, i, LookupOf(i).loc)) = 1
                      /\ Cardinality({pos \in 1 .. Len(plans.upd) :
                                         plans.upd[pos] = <<NewRowset, calc.seg, i>>}) = 1
                      /\ Cardinality({pos \in 1 .. Len(plans.ori) :
                                         plans.ori[pos] = LookupOf(i).loc}) = 1
                      /\ MarkOf(LookupOf(i).loc) \in calc.bm
                      /\ <<NewRowset, calc.seg, TEMP_VERSION_COMMON, i>> \in calc.bm
                      /\ Cardinality({p \in 1 .. Len(calc.block) :
                                         calc.block[p].key = CalcRow(i).key}) = 1
                      /\ UnmarkedOnKey(CalcRow(i).key) = {}
        IN  Paired(ReadPlans)

\* Two conflicting keys of one segment went through the reconstruction
\* path, one of them found with KEY_ALREADY_EXISTS.
C33_Witness ==
    /\ PartialCalc
    /\ Cardinality(Requeued) = 2
    /\ Len(calc.block) = 2
    /\ \E i \in Requeued : LookupOf(i).st = "KEY_ALREADY_EXISTS"
    /\ \E i \in Requeued : LookupOf(i).st = "OK"

\* What a skipped column of a row whose old row is deleted is filled with
\* when the default applies: the declared default, NULL, for an
\* auto-increment column the value the flush phase generated, or the default
\* of the type.
FlexibleDefault(column, cur_value) ==
    IF column.has_default_value THEN column.default_value
    ELSE IF column.is_nullable THEN NullValue
    ELSE IF column.is_auto_increment THEN cur_value
    ELSE TypeDefault

FlexibleBuilt == rebuild.pc = "built" /\ rebuild.mode = "FLEXIBLE"

\* The rows of the plan overwritten by a larger sequence value that specify
\* the sequence column themselves.
KeptOverwritten ==
    {idx \in 1 .. Len(rebuild.plan) :
        rebuild.plan[idx].overwritten /\ "seq" \notin rebuild.plan[idx].skip}

\* C34 as stated: the key comes from the new row; an overwritten row that
\* specifies the sequence column takes every value column from the old row;
\* in every other row a column comes from the new row unless skipped, and a
\* skipped column is the old value, or the default when the old row is
\* deleted.
C34_AsStated ==
    FlexibleBuilt =>
        \A idx \in 1 .. Len(rebuild.plan) :
            LET Built(row, p) ==
                    /\ row["k"] = p.new["k"]
                    /\ \A c \in ValueColumns :
                          row[c] = IF idx \in KeptOverwritten THEN p.old[c]
                                   ELSE IF c \notin p.skip THEN p.new[c]
                                   ELSE IF p.old["del"] # 0
                                   THEN FlexibleDefault(rebuild.schema[c], p.new[c])
                                   ELSE p.old[c]
            IN  Built(rebuild.block[idx], rebuild.plan[idx])

\* C34: as above, but a skipped column of a row whose old row is deleted
\* keeps the old value when the table has a sequence column, the row does
\* not specify it, and the column is the sequence column or the
\* sequence-map column.
C34_FlexibleReconstruction ==
    FlexibleBuilt =>
        \A idx \in 1 .. Len(rebuild.plan) :
            LET Built(row, p) ==
                    /\ row["k"] = p.new["k"]
                    /\ \A c \in ValueColumns :
                          row[c] = IF idx \in KeptOverwritten THEN p.old[c]
                                   ELSE IF c \notin p.skip THEN p.new[c]
                                   ELSE IF /\ p.old["del"] # 0
                                           /\ ~(/\ has_sequence_col
                                                /\ "seq" \in p.skip
                                                /\ c \in {"seq", rebuild.sequence_map_col})
                                   THEN FlexibleDefault(rebuild.schema[c], p.new[c])
                                   ELSE p.old[c]
            IN  Built(rebuild.block[idx], rebuild.plan[idx])

\* An overwritten row that specifies the sequence column was rebuilt with
\* the value columns of the old row.
C34_Witness ==
    /\ FlexibleBuilt
    /\ KeptOverwritten # {}
    /\ \E idx \in KeptOverwritten :
          /\ rebuild.block[idx]["c2"] = ValueB
          /\ rebuild.block[idx]["seq"] = rebuild.plan[idx].old["seq"]
          /\ "c1" \in rebuild.plan[idx].skip

\* A step of update_delete_bitmap on the partial update t that ends with a
\* failure of the calculation (the writer's creation, the load of the
\* segments and the capture of the rowsets with it) or of the flush or build
\* of the transient rowset.
FailsBeforeMerge(t) ==
    /\ txn[t].pc \in {"committed", "aligned"}
    /\ txn'[t].pc = "returned"
    /\ txn'[t].status = "ERROR"
    /\ txn'[t].failed_at \in {"writer", "load", "capture", "skip", "calc", "flush"}

\* C35: update_delete_bitmap of a partial update leaves
\* txn_info->delete_bitmap and the rowset's segments alone until the
\* transient rowset is flushed and built: only then is the bitmap replaced
\* by the working copy and the transient rowset merged; when the
\* calculation, the flush or the build fails both are what they were.
C35_PrivateCopyUntilBuilt ==
    [][\A t \in Txns :
          (txn[t].mode # "NONE" /\ txn[t].pc \in {"committed", "aligned"}) =>
              /\ (txn'[t].delete_bitmap # txn[t].delete_bitmap \/ rowsets'[t] # rowsets[t]) =>
                    /\ txn[t].pc = "aligned"
                    /\ txn'[t].failed_at # "flush"
                    /\ txn'[t].delete_bitmap = txn[t].work
                    /\ rowsets'[t].segs = rowsets[t].segs \o txn[t].blocks
              /\ FailsBeforeMerge(t) =>
                    /\ txn'[t].delete_bitmap = txn[t].delete_bitmap
                    /\ rowsets'[t] = rowsets[t]
              /\ (txn[t].pc = "aligned" /\ txn'[t].pc = "returned"
                  /\ txn'[t].failed_at # "flush") =>
                    /\ txn'[t].delete_bitmap = txn[t].work
                    /\ rowsets'[t].segs = rowsets[t].segs \o txn[t].blocks]_vars

\* The flush of the transient rowset failed after the calculation had
\* marked rows and rebuilt a block: the transaction's bitmap is not the
\* working copy and the rowset holds its own segments.
C35_Witness ==
    \E t \in Txns :
        /\ txn[t].mode # "NONE"
        /\ txn[t].pc = "returned"
        /\ txn[t].failed_at = "flush"
        /\ txn[t].work # txn[t].delete_bitmap
        /\ txn[t].blocks # << >>
        /\ txn[t].delete_bitmap = txn[t].commit_bitmap

\* The rowset a step of update_delete_bitmap_without_lock has returned OK for.
ConvertedNow(rs) == rs \in converted' \ converted

IsSentinel(m) == m[2] = INVALID_SEGMENT_ID \/ m[4] = ROWSET_SENTINEL_MARK

\* C36 as stated: update_delete_bitmap_without_lock merges no sentinel entry
\* and no entry of the temporary version into the tablet's bitmap, whatever
\* the correctness-check flag and the number of segments; what it merges is
\* keyed at the rowset's version, and a rowset without segments leaves the
\* bitmap as it is.
C36_AsStated ==
    [][\A rs \in Txns :
          ConvertedNow(rs) =>
              /\ \A m \in tablet_bitmap' \ tablet_bitmap :
                    /\ ~IsSentinel(m)
                    /\ m[3] # TEMP_VERSION_COMMON
                    /\ m[3] = rowsets[rs].version
              /\ num_segments(rs) = 0 => tablet_bitmap' = tablet_bitmap]_vars

\* C36: update_delete_bitmap_without_lock merges no entry of the temporary
\* version: what it merges is keyed at the rowset's version, and a rowset
\* without segments leaves the bitmap as it is. With the correctness check
\* on no sentinel entry is merged; with the check off the sentinel entry of
\* the rowset itself is merged when the rowset has two segments or more,
\* and no other.
C36_MergedAtStartVersion ==
    [][\A rs \in Txns :
          ConvertedNow(rs) =>
              /\ \A m \in tablet_bitmap' \ tablet_bitmap :
                    /\ m[3] # TEMP_VERSION_COMMON
                    /\ m[3] = rowsets[rs].version
                    /\ IsSentinel(m) =>
                          /\ ~enable_mow_check
                          /\ num_segments(rs) >= 2
                          /\ m = <<rs, INVALID_SEGMENT_ID, rowsets[rs].version,
                                   ROWSET_SENTINEL_MARK>>
              /\ (~enable_mow_check /\ num_segments(rs) >= 2) =>
                    <<rs, INVALID_SEGMENT_ID, rowsets[rs].version, ROWSET_SENTINEL_MARK>>
                        \in tablet_bitmap'
              /\ num_segments(rs) = 0 => tablet_bitmap' = tablet_bitmap]_vars

\* A rowset of two segments was converted with the check on: a row mark of
\* it lies in the tablet's bitmap under the rowset's version and no
\* sentinel entry does.
C36_Witness ==
    /\ enable_mow_check
    /\ \E rs \in converted :
          /\ num_segments(rs) = 2
          /\ \E m \in tablet_bitmap : m[3] = rowsets[rs].version /\ ~IsSentinel(m)
    /\ \A m \in tablet_bitmap : ~IsSentinel(m)

\* C37: SHUTDOWN is absorbing. A set_tablet_state call made in SHUTDOWN for
\* another state returns META_INVALID_ARGUMENT and leaves the tablet in
\* SHUTDOWN; every other call returns OK and leaves the state asked for; so
\* no call after SHUTDOWN finds the tablet in another state.
C37_ShutdownAbsorbing ==
    /\ \A i \in 1 .. Len(state_calls) :
          LET Checked(c) ==
                  IF c.from = "SHUTDOWN" /\ c.state # "SHUTDOWN"
                  THEN c.st = "META_INVALID_ARGUMENT" /\ c.left = "SHUTDOWN"
                  ELSE c.st = "OK" /\ c.left = c.state
          IN  Checked(state_calls[i])
    /\ \A i \in 1 .. Len(state_calls) :
          state_calls[i].left = IF i < Len(state_calls) THEN state_calls[i + 1].from
                                ELSE tablet_state
    /\ \A i \in 1 .. Len(state_calls) :
          state_calls[i].from = "SHUTDOWN" =>
              /\ tablet_state = "SHUTDOWN"
              /\ \A j \in i .. Len(state_calls) : state_calls[j].from = "SHUTDOWN"

\* A tablet was shut down by a call, and later calls for RUNNING and for
\* NOTREADY were refused.
C37_Witness ==
    /\ tablet_state = "SHUTDOWN"
    /\ \E i, j, k \in 1 .. Len(state_calls) :
          /\ i < j /\ i < k
          /\ state_calls[i].from = "RUNNING" /\ state_calls[i].state = "SHUTDOWN"
          /\ state_calls[i].st = "OK"
          /\ state_calls[j].state = "RUNNING" /\ state_calls[j].st = "META_INVALID_ARGUMENT"
          /\ state_calls[k].state = "NOTREADY" /\ state_calls[k].st = "META_INVALID_ARGUMENT"

\* C38: the batched scan of the primary-key index ends, for every number of
\* entries, the multiples of the batch size among them. At the start of
\* every batch the total is the remaining count plus the current ordinal,
\* and after the first batch the first key read is the key held back. The
\* entries are examined once each, in ascending order, each under its
\* ordinal as row id; every batch lowers the remaining count.
C38_BatchedScanCoversIndex ==
    /\ [](pk_scan.pc # "dcheck_failed")
    /\ [](pk_scan.pc = "batch" =>
             /\ pk_scan.total = pk_scan.remaining + pk_scan.current_ordinal
             /\ pk_scan.batches > 1 =>
                   /\ pk_scan.batch[1] = pk_scan.seek_key
                   /\ pk_scan.seek_key # EmptyKey)
    /\ [](\A k \in 1 .. Len(pk_scan.examined) :
             /\ pk_scan.examined[k].key = pk_scan.index[k]
             /\ pk_scan.examined[k].row_id = k - 1)
    /\ [](pk_scan.pc = "done" => /\ Len(pk_scan.examined) = pk_scan.total
                                 /\ pk_scan.row_id = pk_scan.total
                                 /\ pk_scan.remaining = 0)
    /\ [][(pk_scan.pc = "batch" /\ pk_scan'.pc = "loop") =>
             pk_scan'.remaining < pk_scan.remaining]_vars
    /\ [][pk_scan'.remaining <= pk_scan.remaining]_vars
    /\ <>(pk_scan.pc = "done")

\* An index of twice the batch size was scanned to its end in three batches.
C38_Witness ==
    /\ pk_scan.pc = "done"
    /\ pk_scan.total = 2 * batch_size
    /\ pk_scan.batches = 3
    /\ Len(pk_scan.examined) = 2 * batch_size

\* The row at the location is marked deleted in the bitmap aggregated up to
\* the version.
DeletedAt(loc, version) ==
    contains_agg_without_cache(tablet_bitmap, loc[1], loc[2], version, loc[3])

\* C39 as stated: a location lookup_row_key returns, with OK or with
\* KEY_ALREADY_EXISTS, is never that of a row marked deleted in the bitmap
\* aggregated up to the version asked for.
C39_AsStated ==
    \A S \in SUBSET rs_version_map, key \in Keys, version \in LookupVersions,
       seq \in Seqs, with_seq_col \in BOOLEAN :
       LET Live(r) ==
               r.st \in {"OK", "KEY_ALREADY_EXISTS"} => ~DeletedAt(r.loc, version)
       IN  Live(lookup_row_key(key, seq, with_seq_col, get_rowset_by_ids(S), version,
                               tablet_bitmap))

\* C39: a location lookup_row_key returns with OK is that of a row holding
\* the key that is not marked deleted in the bitmap aggregated up to the
\* version asked for. A location returned with KEY_ALREADY_EXISTS is that of
\* a row holding the key with a larger sequence value, marked deleted or
\* not: it is the first such row in the order of the scan when no live match
\* comes before it.
C39_ReturnedRowIsLive ==
    \A S \in SUBSET rs_version_map, key \in Keys, version \in LookupVersions,
       seq \in Seqs, with_seq_col \in BOOLEAN :
       LET Live(r) ==
               /\ r.st \in {"OK", "KEY_ALREADY_EXISTS"} => RowAt(r.loc).key = key
               /\ r.st = "OK" => ~DeletedAt(r.loc, version)
               /\ r.st = "KEY_ALREADY_EXISTS" =>
                     /\ has_sequence_col /\ with_seq_col
                     /\ RowAt(r.loc).seq > seq
       IN  Live(lookup_row_key(key, seq, with_seq_col, get_rowset_by_ids(S), version,
                               tablet_bitmap))

\* A lookup passed the deleted match of a newer rowset over and returned the
\* live row of an older one with OK.
C39_Witness ==
    /\ has_sequence_col
    /\ \E key \in Keys, seq \in Seqs :
          LET Passed(r) ==
                  /\ r.st = "OK"
                  /\ \E o \in rs_version_map, j \in 0 .. MaxSegs - 1, i \in 0 .. NumKeys - 1 :
                        /\ j < num_segments(o) /\ i < Len(rowsets[o].segs[j + 1])
                        /\ rowsets[o].version > rowsets[r.loc[1]].version
                        /\ RowAt(<<o, j, i>>).key = key
                        /\ DeletedAt(<<o, j, i>>, NumTxns + 1)
          IN  Passed(lookup_row_key(key, seq, TRUE, get_rowset_by_ids(rs_version_map),
                                    NumTxns + 1, tablet_bitmap))

\* What the close calls that have returned show: a blocking close of a
\* writer closing asynchronously returns the status of the asynchronous
\* close and leaves the writer CLOSED; a close of a closed writer and a
\* second non-blocking close return an error and leave the state.
CloseCallsAsStated ==
    \A i \in 1 .. Len(s3_writer.calls) :
        LET Checked(c) ==
                /\ (c.from = "ASYNC_CLOSING" /\ ~c.non_block) =>
                      /\ c.left = "CLOSED"
                      /\ c.st = s3_writer.async_st
                      /\ c.st \in UploadStatuses
                /\ (c.from = "CLOSED" \/ (c.from = "ASYNC_CLOSING" /\ c.non_block)) =>
                      /\ c.st = "INTERNAL_ERROR"
                      /\ c.left = c.from
        IN  Checked(s3_writer.calls[i])

====
